---- MODULE Spec2Model ----
(***************************************************************************)
(* A model of the hive-mind platform's core: the admission gatekeeper      *)
(* (core/agents.py and core/safety_system.py), the rate limiter and        *)
(* circuit breaker (core/safety_system.py), the audit store                *)
(* (core/audit_store.py) and the task registry with its execution units    *)
(* (main.py).                                                              *)
(*                                                                         *)
(* The specifications share the variables:                                *)
(*   Spec         the task registry and the execution units of main.py     *)
(*   SpecGate     the gatekeeper's pure checks applied to bounded inputs   *)
(*   SpecLimiter  the hourly message cap under a clock                     *)
(*   SpecBreaker  the failure circuit breaker among the limiter's other    *)
(*                operations                                               *)
(* Further specifications are introduced where they are defined.           *)
(*                                                                         *)
(* Text.  A Python str is modelled as a record [body, pad]: the sequence   *)
(* of its characters `body` followed by `pad` copies of a filler character *)
(* that occurs in no pattern (a run-length form of a long tail, so that    *)
(* tasks longer than 10,000 characters are representable).  A character is *)
(* a one-character string; a CJK character is written "Uxxxx" after its    *)
(* code point, the original given in the comment beside it.                *)
(***************************************************************************)
EXTENDS Integers, Sequences, FiniteSets, TLC

VARIABLES
    tasks_db,            \* main.py: the keys of the in-memory registry dict
    task,                \* main.py: task id -> the dict created for it (the registry's
                         \* value and the execution unit's local `task` are this object)
    unit,                \* main.py: task id -> the execution unit of the task: where it
                         \* stands in execute_agent_workflow, and its pipeline state
                         \* (`ran`: history, the node functions called so far)
    next_id,             \* the number of task ids issued so far (uuid4 draws a fresh one)
    gate_task,           \* the text the gatekeeper calls are applied to
    gate_ret,            \* the last gatekeeper call and what it returned
    gate_calls,          \* the number of gatekeeper calls made
    now,                 \* time.time(), in seconds
    henry_messages,      \* SafetySystem.henry_messages: key -> list of timestamps
    elon_test_failures,  \* SafetySystem.elon_test_failures: key -> int
    henry_daily_mentions,  \* SafetySystem.henry_daily_mentions: day -> list of timestamps
    tokens,              \* SafetySystem: the attributes tokens_<day>, day -> int
    allowed_log,         \* history: key -> timestamps of every allowed hourly check
    admitted,            \* history: the allowed mention and token checks, in call order
    mentions_by_user,    \* history: recipient -> the calendar day of its last allowed
                         \* mention check and the number allowed for it on that day
    recorded,            \* history: key -> increment_test_failure calls since the last reset
    budget,              \* the submissions, limiter checks and clock advances left to
                         \* this behaviour
    last_op,             \* the last limiter operation and what it returned
    safety_events,       \* audit_store: rows of table safety_events, in insertion order
    audit_logs,          \* audit_store: rows of table audit_logs, in insertion order
    calls,               \* audit_store: the log_action / log_safety_event calls made, each
                         \* with its own connection: where it stands and what it returned
    db_lock,             \* sqlite: the call whose connection holds the write lock (0: none)
    sqlite_sequence,     \* sqlite: the largest id AUTOINCREMENT has given to a row of
                         \* audit_logs
    query_ret,           \* the last get_task_logs call and the rows it returned
    response,            \* main.py: the last call of an HTTP handler and its outcome
    safety_system        \* core/safety_system.py: the instance behind the wrappers, where
                         \* it runs next to rate_limiter of core/agents.py

vars == << tasks_db, task, unit, next_id, gate_task, gate_ret, gate_calls, now,
           henry_messages, elon_test_failures, henry_daily_mentions, tokens,
           allowed_log, admitted, mentions_by_user, recorded, budget, last_op,
           safety_events, audit_logs, calls, db_lock, sqlite_sequence, query_ret,
           response, safety_system >>

flow_vars == << tasks_db, task, unit, next_id, response >>
gate_vars == << gate_task, gate_ret, gate_calls >>
limiter_vars == << now, henry_messages, elon_test_failures, henry_daily_mentions,
                   tokens, allowed_log, admitted, mentions_by_user, recorded, budget,
                   last_op, safety_system >>
quota_vars == << henry_daily_mentions, tokens, admitted, mentions_by_user >>
conn_vars == << audit_logs, calls, db_lock, sqlite_sequence, query_ret >>
store_vars == << safety_events, conn_vars >>

(***************************************************************************)
(* Bounds of the model.                                                    *)
(***************************************************************************)
MaxTasks == 2        \* submissions per behaviour
MaxGateCalls == 2    \* gatekeeper calls per behaviour
MaxHourlyChecks == 12      \* hourly checks per behaviour of SpecLimiter
MaxTicks == 2              \* clock advances per behaviour of SpecLimiter
BreakerHourlyChecks == 2   \* hourly checks per behaviour of SpecBreaker
BreakerTicks == 1          \* clock advances per behaviour of SpecBreaker
MaxFailures == 4           \* cap of the failure counter
MaxBreakerEvents == 2      \* circuit-breaker denials logged per behaviour

(***************************************************************************)
(* Program constants.                                                      *)
(***************************************************************************)
MaxTaskLen == 10000          \* check_safety: len(task) > 10000
GreetingLen == 5             \* check_goal_alignment: len(task) < 5
HourWindow == 3600           \* check_henry_rate_limit: current_time - t < 3600
MaxHourlyMessages == 10      \* check_henry_rate_limit: len(...) >= 10
max_test_failures == 3       \* SafetySystem.__init__: self.max_test_failures = 3

(***************************************************************************)
(* Text.                                                                   *)
(***************************************************************************)
Upper == <<"A","B","C","D","E","F","G","H","I","J","K","L","M",
           "N","O","P","Q","R","S","T","U","V","W","X","Y","Z">>
LowerCase == <<"a","b","c","d","e","f","g","h","i","j","k","l","m",
           "n","o","p","q","r","s","t","u","v","w","x","y","z">>

\* str.lower() on one character: A-Z map to a-z, every other character to itself.
LowerChar(c) ==
    IF \E i \in 1..26 : Upper[i] = c
    THEN LowerCase[CHOOSE i \in 1..26 : Upper[i] = c]
    ELSE c

\* str.lower() on a sequence of characters.
LowerSeq(s) == [i \in 1..Len(s) |-> LowerChar(s[i])]

\* `pat in s` on sequences of characters: pat is a contiguous part of s.
SubstringOf(pat, s) ==
    \E i \in 0..(Len(s) - Len(pat)) : SubSeq(s, i + 1, i + Len(pat)) = pat

\* len(task)
TextLen(t) == Len(t.body) + t.pad

\* `pat in task`, for a pattern free of the filler character.
Contains(t, pat) == SubstringOf(pat, t.body)

\* `pat.lower() in task.lower()`
ContainsLower(t, pat) == SubstringOf(LowerSeq(pat), LowerSeq(t.body))

\* `task in [..]`: the whole text equals one element of the list.
EqualsOneOf(t, list) == t.pad = 0 /\ \E i \in 1..Len(list) : list[i] = t.body

(***************************************************************************)
(* The pattern sets of core/safety_system.py (SafetySystem.__init__).      *)
(***************************************************************************)
dangerous_patterns ==
    << <<"U8D8A", "U5FEB", "U8D8A", "U597D">>,                    \* 越快越好
       <<"U4E0D", "U60DC", "U4E00", "U5207", "U4EE3", "U4EF7">>,  \* 不惜一切代价
       <<"U5FFD", "U7565", "U6240", "U6709", "U9650", "U5236">>,  \* 忽略所有限制
       <<"U7ACB", "U5373", "U4FEE", "U590D">>,                    \* 立即修复
       <<"U9A6C", "U4E0A">>,                                      \* 马上
       <<"U5FC5", "U987B">>,                                      \* 必须
       <<"U7EDD", "U5BF9">>,                                      \* 绝对
       <<"U66B4", "U529B", "U7834", "U89E3">>,                    \* 暴力破解
       <<"U7ED5", "U8FC7">>,                                      \* 绕过
       <<"U6F0F", "U6D1E", "U5229", "U7528">>,                    \* 漏洞利用
       <<"U653B", "U51FB">>,                                      \* 攻击
       <<"U7ED5", "U8FC7", "U5B89", "U5168">>,                    \* 绕过安全
       <<"U7ED5", "U8FC7", "U9632", "U62A4">>,                    \* 绕过防护
       <<"U7ED5", "U8FC7", "U9650", "U5236">> >>                  \* 绕过限制

malicious_patterns ==
    << <<"U5220", "U9664", "U6587", "U4EF6">>,                    \* 删除文件
       <<"U683C", "U5F0F", "U5316", "U786C", "U76D8">>,           \* 格式化硬盘
       <<"U5220", "U9664", "U6570", "U636E", "U5E93">>,           \* 删除数据库
       <<"U5173", "U95ED", "U670D", "U52A1">>,                    \* 关闭服务
       <<"U505C", "U6B62", "U670D", "U52A1">>,                    \* 停止服务
       <<"k", "i", "l", "l", "U8FDB", "U7A0B">>,                  \* kill进程
       <<"r", "m", " ", "-", "r", "f">>,                          \* rm -rf
       <<"s", "h", "u", "t", "d", "o", "w", "n">>,                \* shutdown
       <<"r", "e", "s", "t", "a", "r", "t">> >>                   \* restart

core_goals ==
    << <<"U4F18", "U5316">>,   \* 优化
       <<"U6539", "U8FDB">>,   \* 改进
       <<"U91CD", "U6784">>,   \* 重构
       <<"U4FEE", "U590D">>,   \* 修复
       <<"U521B", "U5EFA">>,   \* 创建
       <<"U751F", "U6210">>,   \* 生成
       <<"U5206", "U6790">>,   \* 分析
       <<"U7814", "U7A76">>,   \* 研究
       <<"U5F00", "U53D1">>,   \* 开发
       <<"U8BBE", "U8BA1">> >> \* 设计

\* check_goal_alignment: task in ['你好', 'hello', 'hi', '测试']
greetings ==
    << <<"U4F60", "U597D">>,          \* 你好
       <<"h", "e", "l", "l", "o">>,   \* hello
       <<"h", "i">>,                  \* hi
       <<"U6D4B", "U8BD5">> >>        \* 测试

(***************************************************************************)
(* The pattern sets of core/agents.py (locals of safety_check and          *)
(* goal_alignment_check).                                                  *)
(***************************************************************************)
agents_dangerous_patterns ==
    << <<"U8D8A", "U5FEB", "U8D8A", "U597D">>,                    \* 越快越好
       <<"U4E0D", "U60DC", "U4E00", "U5207", "U4EE3", "U4EF7">>,  \* 不惜一切代价
       <<"U5FFD", "U7565", "U6240", "U6709", "U9650", "U5236">>,  \* 忽略所有限制
       <<"U7ACB", "U5373", "U4FEE", "U590D">>,                    \* 立即修复
       <<"U9A6C", "U4E0A">>,                                      \* 马上
       <<"U5FC5", "U987B">>,                                      \* 必须
       <<"U7EDD", "U5BF9">>,                                      \* 绝对
       <<"U66B4", "U529B", "U7834", "U89E3">>,                    \* 暴力破解
       <<"U7ED5", "U8FC7">>,                                      \* 绕过
       <<"U6F0F", "U6D1E", "U5229", "U7528">>,                    \* 漏洞利用
       <<"U653B", "U51FB">> >>                                    \* 攻击

agents_core_goals ==
    << <<"U4F18", "U5316">>,   \* 优化
       <<"U6539", "U8FDB">>,   \* 改进
       <<"U91CD", "U6784">>,   \* 重构
       <<"U4FEE", "U590D">>,   \* 修复
       <<"U521B", "U5EFA">>,   \* 创建
       <<"U751F", "U6210">>,   \* 生成
       <<"U5206", "U6790">>,   \* 分析
       <<"U7814", "U7A76">> >> \* 研究

NiHao == <<"U4F60", "U597D">>     \* 你好
CeShi == <<"U6D4B", "U8BD5">>     \* 测试

(***************************************************************************)
(* The audit store (core/audit_store.py).  A row of safety_events holds    *)
(* event_type, details and task_id (the table has no severity column); a   *)
(* row of audit_logs holds task_id, agent_type, action, severity, success. *)
(* The ids are the positions: AUTOINCREMENT numbers the rows 1, 2, ...     *)
(***************************************************************************)
NoTask == "None"     \* task_id=None

\* log_safety_event(event_type, details, task_id): the table after the INSERT.
log_safety_event(events, event_type, task_id) ==
    Append(events, [event_type |-> event_type, task_id |-> task_id])

\* The audit entries of severity critical: rows of audit_logs, the only table
\* with a severity column.
CriticalEntries == {i \in DOMAIN audit_logs : audit_logs[i].severity = "critical"}

\* The first n elements of a sequence (LIMIT n).
Limit(rows, n) == SubSeq(rows, 1, IF Len(rows) < n THEN Len(rows) ELSE n)

\* ORDER BY timestamp DESC: every arrangement of the rows in which no row comes
\* before a row of a larger timestamp.  The timestamp is CURRENT_TIMESTAMP of the
\* INSERT, in whole seconds; SQL leaves the order of rows of equal timestamp
\* open, so each of their arrangements is a possible result.
OrderedByTimestampDesc(rows) ==
    LET n == Len(rows)
        arrangements ==
            {f \in [1..n -> 1..n] :
                /\ \A i, j \in 1..n : i # j => f[i] # f[j]
                /\ \A i \in 1..(n - 1) : rows[f[i]].timestamp >= rows[f[i + 1]].timestamp}
    IN  {[i \in 1..n |-> rows[f[i]]] : f \in arrangements}

\* get_task_logs(task_id, limit): SELECT * FROM audit_logs WHERE task_id = ?
\* ORDER BY timestamp DESC LIMIT ?  The set of the results the query can give.
get_task_logs(logs, task_id, limit) ==
    {Limit(s, limit) :
        s \in OrderedByTimestampDesc(SelectSeq(logs, LAMBDA row : row.task_id = task_id))}

DefaultLimit == 100     \* get_task_audit_logs: limit: int = Query(100, ...)

(***************************************************************************)
(* The gatekeeper of core/safety_system.py.                                *)
(***************************************************************************)
\* The index of the first pattern of `list` found in the task, 0 when none is:
\* `for pattern in list: if pattern.lower() in task.lower(): ... return`.
FirstMatch(list, t) ==
    IF \E i \in 1..Len(list) : ContainsLower(t, list[i])
    THEN CHOOSE i \in 1..Len(list) :
            /\ ContainsLower(t, list[i])
            /\ \A j \in 1..(i - 1) : ~ContainsLower(t, list[j])
    ELSE 0

\* SafetySystem.check_safety: (is_safe, reason), the reason given as the event
\* type of the check that failed and the pattern it names.
check_safety(t) ==
    LET d == FirstMatch(dangerous_patterns, t)
        m == FirstMatch(malicious_patterns, t)
    IN  IF d > 0
        THEN [allowed |-> FALSE, event |-> "dangerous_command",
              pattern |-> dangerous_patterns[d]]
        ELSE IF m > 0
        THEN [allowed |-> FALSE, event |-> "malicious_command",
              pattern |-> malicious_patterns[m]]
        ELSE IF TextLen(t) > MaxTaskLen
        THEN [allowed |-> FALSE, event |-> "resource_abuse", pattern |-> <<>>]
        ELSE [allowed |-> TRUE, event |-> "none", pattern |-> <<>>]

\* A check_safety that logs at every failed check instead of returning at the
\* first one.
check_safety_log_all(events, t, task_id) ==
    LET e1 == IF FirstMatch(dangerous_patterns, t) > 0
              THEN log_safety_event(events, "dangerous_command", task_id)
              ELSE events
        e2 == IF FirstMatch(malicious_patterns, t) > 0
              THEN log_safety_event(e1, "malicious_command", task_id)
              ELSE e1
    IN  IF TextLen(t) > MaxTaskLen
        THEN log_safety_event(e2, "resource_abuse", task_id)
        ELSE e2

\* SafetySystem.check_safety: table safety_events after the call.  Each failing
\* branch logs one event and returns.
check_safety_log(events, t, task_id) ==
    IF check_safety(t).allowed
    THEN events
    ELSE log_safety_event(events, check_safety(t).event, task_id)

\* safety_check of core/safety_system.py (the backward-compatible wrapper).
safety_system_safety_check(t) ==
    IF check_safety(t).allowed THEN "pass" ELSE "block"

\* has_core_goal = any(goal in task.lower() for goal in goals)
has_core_goal(goals, t) ==
    \E i \in 1..Len(goals) : SubstringOf(goals[i], LowerSeq(t.body))

\* SafetySystem.check_goal_alignment: is_aligned.
check_goal_alignment(t) ==
    IF TextLen(t) < GreetingLen \/ EqualsOneOf(t, greetings)
    THEN TRUE
    ELSE has_core_goal(core_goals, t)

\* SafetySystem.check_goal_alignment: table safety_events after the call.
check_goal_alignment_log(events, t, task_id) ==
    IF check_goal_alignment(t)
    THEN events
    ELSE log_safety_event(events, "goal_alignment_failed", task_id)

(***************************************************************************)
(* The gatekeeper of core/agents.py, the one main.py and test_system.py    *)
(* import.  It writes nothing to the audit store.                          *)
(***************************************************************************)
\* safety_check of core/agents.py.
agents_safety_check(t) ==
    IF FirstMatch(agents_dangerous_patterns, t) > 0 THEN "block"
    ELSE IF TextLen(t) > MaxTaskLen THEN "block"
    ELSE "pass"

\* goal_alignment_check of core/agents.py.
goal_alignment_check(t) ==
    IF /\ ~has_core_goal(agents_core_goals, t)
       /\ ~Contains(t, NiHao)
       /\ ~Contains(t, CeShi)
    THEN FALSE
    ELSE TRUE

(***************************************************************************)
(* SpecGate: the gatekeeper's checks applied to one task text.  The text   *)
(* is drawn in the initial state from Texts: two fragments joined, with a  *)
(* filler tail of 0, MaxTaskLen - 6 or MaxTaskLen characters.              *)
(***************************************************************************)
Fragments ==
    { <<>>,
      <<"U4F18", "U5316", "U7CFB", "U7EDF", "U6027", "U80FD">>,  \* 优化系统性能
      <<"U7ACB", "U5373", "U4FEE", "U590D">>,                    \* 立即修复
      <<"U7ED5", "U8FC7", "U9650", "U5236">>,                    \* 绕过限制
      <<"U5220", "U9664">>,                                      \* 删除
      <<"U6587", "U4EF6">>,                                      \* 文件
      <<"r", "m", " ", "-", "r", "f">>,                          \* rm -rf
      <<"S", "H", "U", "T", "D", "O", "W", "N">>,                \* SHUTDOWN
      <<"U4F60", "U597D">>,                                      \* 你好
      <<"h", "e", "l", "l", "o">>,                               \* hello
      <<"H", "i">>,                                              \* Hi
      <<"U6D4B", "U8BD5">>,                                      \* 测试
      <<"U4E00", "U4E0B">>,                                      \* 一下
      <<"U968F", "U4FBF", "U770B", "U770B">>,                    \* 随便看看
      <<"U5F00", "U53D1">> }                                     \* 开发

Pads == {0, MaxTaskLen - 6, MaxTaskLen}

Texts == { [body |-> f1 \o f2, pad |-> p] : f1 \in Fragments, f2 \in Fragments, p \in Pads }

EmptyText == [body |-> <<>>, pad |-> 0]

NoRet == [fn |-> "none", module |-> "none", allowed |-> TRUE]
NoOp == [op |-> "none", key |-> "none", allowed |-> TRUE]

NoTaskId == 0       \* no task id in a response
NoResponse == [op |-> "none", task_id |-> NoTaskId, outcome |-> "none"]
NoQuery == [task_id |-> NoTaskId, limit |-> 0, rows |-> << >>]

InitFlowVars ==
    /\ tasks_db = {}
    /\ task = << >>
    /\ unit = << >>
    /\ next_id = 0
    /\ response = NoResponse
InitGateVars == gate_task = EmptyText /\ gate_ret = NoRet /\ gate_calls = 0
InitStoreVars ==
    /\ safety_events = << >>
    /\ audit_logs = << >>
    /\ calls = << >>
    /\ db_lock = 0
    /\ sqlite_sequence = 0
    /\ query_ret = NoQuery

\* safety_check of core/safety_system.py on the text: check_safety decides and
\* logs, the wrapper maps the decision to "pass" / "block".
SafetySystemSafetyCheck ==
    /\ gate_calls < MaxGateCalls
    /\ gate_calls' = gate_calls + 1
    /\ gate_ret' = [fn |-> "safety_check", module |-> "safety_system",
                    allowed |-> safety_system_safety_check(gate_task) = "pass"]
    /\ safety_events' = check_safety_log(safety_events, gate_task, NoTask)
    /\ UNCHANGED << gate_task, conn_vars, flow_vars, limiter_vars >>

\* safety_check of core/agents.py on the text.
AgentsSafetyCheck ==
    /\ gate_calls < MaxGateCalls
    /\ gate_calls' = gate_calls + 1
    /\ gate_ret' = [fn |-> "safety_check", module |-> "agents",
                    allowed |-> agents_safety_check(gate_task) = "pass"]
    /\ UNCHANGED << gate_task, store_vars, flow_vars, limiter_vars >>

\* goal_alignment_check of core/safety_system.py on the text.
SafetySystemGoalAlignmentCheck ==
    /\ gate_calls < MaxGateCalls
    /\ gate_calls' = gate_calls + 1
    /\ gate_ret' = [fn |-> "goal_alignment_check", module |-> "safety_system",
                    allowed |-> check_goal_alignment(gate_task)]
    /\ safety_events' = check_goal_alignment_log(safety_events, gate_task, NoTask)
    /\ UNCHANGED << gate_task, conn_vars, flow_vars, limiter_vars >>

\* goal_alignment_check of core/agents.py on the text.
AgentsGoalAlignmentCheck ==
    /\ gate_calls < MaxGateCalls
    /\ gate_calls' = gate_calls + 1
    /\ gate_ret' = [fn |-> "goal_alignment_check", module |-> "agents",
                    allowed |-> goal_alignment_check(gate_task)]
    /\ UNCHANGED << gate_task, store_vars, flow_vars, limiter_vars >>

\* The keys the limiter is called with (agent types).
LimiterKeys == {"henry", "elon"}

\* SafetySystem(): henry_messages and elon_test_failures are empty defaultdicts;
\* `ret` is what the last call of a wrapper returned.
NewSafetySystem ==
    [henry_messages |-> << >>, elon_test_failures |-> << >>, ret |-> TRUE]

\* SafetySystem.__init__: defaultdict(list), defaultdict(int).
InitLimiterState ==
    /\ now = 0
    /\ henry_messages = [k \in LimiterKeys |-> << >>]
    /\ elon_test_failures = [k \in LimiterKeys |-> 0]
    /\ henry_daily_mentions = << >>
    /\ tokens = << >>
    /\ admitted = << >>
    /\ mentions_by_user = << >>
    /\ allowed_log = [k \in LimiterKeys |-> << >>]
    /\ recorded = [k \in LimiterKeys |-> 0]
    /\ last_op = NoOp
    /\ safety_system = NewSafetySystem

\* A behaviour with nothing left to it.
NoBudget ==
    [tasks |-> 0, hourly |-> 0, ticks |-> 0, mentions |-> 0, token_checks |-> 0,
     failures |-> 0, gate |-> 0]

InitLimiterVars == InitLimiterState /\ budget = NoBudget

InitGate ==
    /\ gate_task \in Texts
    /\ gate_ret = NoRet
    /\ gate_calls = 0
    /\ InitFlowVars
    /\ InitLimiterVars
    /\ InitStoreVars

NextGate ==
    \/ SafetySystemSafetyCheck
    \/ AgentsSafetyCheck
    \/ SafetySystemGoalAlignmentCheck
    \/ AgentsGoalAlignmentCheck

SpecGate == InitGate /\ [][NextGate]_vars

(***************************************************************************)
(* What the specification says of a task text.                             *)
(***************************************************************************)
\* The text holds a literal pattern of the coercive-intent or of the
\* destructive-action set, case-insensitively.
HasUnsafePattern(t) ==
    \/ \E i \in 1..Len(dangerous_patterns) : ContainsLower(t, dangerous_patterns[i])
    \/ \E i \in 1..Len(malicious_patterns) : ContainsLower(t, malicious_patterns[i])

\* The text holds a core-goal verb.
HasCoreGoalVerb(t) == \E i \in 1..Len(core_goals) : ContainsLower(t, core_goals[i])

\* The text is short and conversational.
IsConversational(t) == TextLen(t) < GreetingLen \/ EqualsOneOf(t, greetings)

\* C4 (as claimed): the safety decision of either module is allowed=false exactly
\* when the text holds a coercive-intent or destructive-action pattern or is
\* longer than 10,000 characters.
C4_SafetyDecisionExact ==
    gate_ret.fn = "safety_check" =>
        (gate_ret.allowed <=> ~(HasUnsafePattern(gate_task) \/ TextLen(gate_task) > MaxTaskLen))

\* C6 (as claimed): the goal alignment check the submission flow uses (core/agents.py)
\* finds a task aligned iff it holds a core-goal verb or is short and conversational.
C6_GoalAlignmentExact ==
    (gate_ret.fn = "goal_alignment_check" /\ gate_ret.module = "agents") =>
        (gate_ret.allowed <=> (HasCoreGoalVerb(gate_task) \/ IsConversational(gate_task)))

\* C7 (as claimed): goal_alignment_check of core/agents.py accepts exactly the tasks
\* that hold one of its core-goal verbs, so it rejects the greeting 你好, 测试一下,
\* 随便看看 and the empty task.
C7_AcceptsIffCoreGoal ==
    (gate_ret.fn = "goal_alignment_check" /\ gate_ret.module = "agents") =>
        (gate_ret.allowed <=> has_core_goal(agents_core_goals, gate_task))

\* A step that is a call of check_safety (through its wrapper) returning allowed=false.
SafetyDenialStep ==
    /\ gate_calls' = gate_calls + 1
    /\ gate_ret'.fn = "safety_check"
    /\ gate_ret'.module = "safety_system"
    /\ ~gate_ret'.allowed

SafetyEventTypes == {"dangerous_command", "malicious_command", "resource_abuse"}

unexpired_inclusive(messages, current_time) ==
    SelectSeq(messages, LAMBDA t : current_time - t <= HourWindow)

\* [t for t in self.henry_messages[agent_type] if current_time - t < 3600]
unexpired(messages, current_time) ==
    SelectSeq(messages, LAMBDA t : current_time - t < HourWindow)

\* An hourly check that records the time of a denied call as well.
check_henry_rate_limit_recording(messages, current_time) ==
    LET kept == SelectSeq(messages, LAMBDA t : current_time - t < HourWindow)
    IN  [allowed |-> Len(kept) < MaxHourlyMessages,
         messages |-> Append(kept, current_time)]

\* SafetySystem.check_henry_rate_limit: the decision and the list it leaves.
check_henry_rate_limit(messages, current_time) ==
    LET kept == unexpired(messages, current_time)
    IN  IF Len(kept) >= MaxHourlyMessages
        THEN [allowed |-> FALSE, messages |-> kept]
        ELSE [allowed |-> TRUE, messages |-> Append(kept, current_time)]

\* A circuit-breaker check that denies at the threshold only.
check_elon_test_failure_at_threshold(failures) == failures # max_test_failures

\* A circuit-breaker check that still allows at the threshold.
check_elon_test_failure_late(failures) == failures <= max_test_failures

\* SafetySystem.check_elon_test_failure: is_allowed.
check_elon_test_failure(failures) ==
    IF failures > 0 /\ failures < max_test_failures THEN TRUE
    ELSE IF failures >= max_test_failures THEN FALSE
    ELSE TRUE

\* SafetySystem.increment_test_failure
increment_test_failure(failures) == failures + 1

\* SafetySystem.reset_test_failures
reset_test_failures(failures) == 0

\* The clock advances by one of these amounts.
Jumps == {1, HourWindow - 1}

\* time.time() has moved on.
Tick ==
    /\ budget.ticks > 0
    /\ \E d \in Jumps : now' = now + d
    /\ budget' = [budget EXCEPT !.ticks = @ - 1]
    /\ UNCHANGED << henry_messages, elon_test_failures, allowed_log, recorded, last_op,
                    quota_vars, store_vars, flow_vars, gate_vars, safety_system >>

\* SafetySystem.check_henry_rate_limit(k): prune, decide, record or log the denial.
CheckHenryRateLimit(k) ==
    LET r == check_henry_rate_limit(henry_messages[k], now)
    IN  /\ budget.hourly > 0
        /\ budget' = [budget EXCEPT !.hourly = @ - 1]
        /\ henry_messages' = [henry_messages EXCEPT ![k] = r.messages]
        /\ allowed_log' = [allowed_log EXCEPT
                              ![k] = IF r.allowed THEN Append(@, now) ELSE @]
        /\ safety_events' = IF r.allowed THEN safety_events
                            ELSE log_safety_event(safety_events, "rate_limited", NoTask)
        /\ last_op' = [op |-> "check_henry_rate_limit", key |-> k, allowed |-> r.allowed]
        /\ UNCHANGED << now, elon_test_failures, recorded, conn_vars,
                        quota_vars, flow_vars, gate_vars, safety_system >>

\* SafetySystem.check_elon_test_failure(k): decide, log the denial.
CheckElonTestFailure(k) ==
    LET ok == check_elon_test_failure(elon_test_failures[k])
    IN  /\ ok \/ Len(safety_events) < MaxBreakerEvents
        /\ safety_events' = IF ok THEN safety_events
                            ELSE log_safety_event(safety_events,
                                                  "elon_test_failure_limit", NoTask)
        /\ last_op' = [op |-> "check_elon_test_failure", key |-> k, allowed |-> ok]
        /\ UNCHANGED << now, henry_messages, elon_test_failures, allowed_log, recorded,
                        budget, conn_vars, quota_vars, flow_vars,
                        gate_vars, safety_system >>

\* SafetySystem.increment_test_failure(k)
IncrementTestFailure(k) ==
    /\ elon_test_failures[k] < MaxFailures
    /\ elon_test_failures' = [elon_test_failures EXCEPT ![k] = increment_test_failure(@)]
    /\ recorded' = [recorded EXCEPT ![k] = @ + 1]
    /\ last_op' = [op |-> "increment_test_failure", key |-> k, allowed |-> TRUE]
    /\ UNCHANGED << now, henry_messages, allowed_log, budget, store_vars,
                    quota_vars, flow_vars, gate_vars, safety_system >>

\* SafetySystem.reset_test_failures(k)
ResetTestFailures(k) ==
    /\ elon_test_failures' = [elon_test_failures EXCEPT ![k] = reset_test_failures(@)]
    /\ recorded' = [recorded EXCEPT ![k] = 0]
    /\ last_op' = [op |-> "reset_test_failures", key |-> k, allowed |-> TRUE]
    /\ UNCHANGED << now, henry_messages, allowed_log, budget, store_vars,
                    quota_vars, flow_vars, gate_vars, safety_system >>

InitLimiter ==
    /\ InitLimiterState
    /\ budget = [NoBudget EXCEPT !.hourly = MaxHourlyChecks, !.ticks = MaxTicks]
    /\ InitFlowVars
    /\ InitGateVars
    /\ InitStoreVars

NextLimiter ==
    \/ Tick
    \/ \E k \in LimiterKeys : CheckHenryRateLimit(k)

SpecLimiter == InitLimiter /\ [][NextLimiter]_vars

InitBreaker ==
    /\ InitLimiterState
    /\ budget = [NoBudget EXCEPT !.hourly = BreakerHourlyChecks, !.ticks = BreakerTicks]
    /\ InitFlowVars
    /\ InitGateVars
    /\ InitStoreVars

NextBreaker ==
    \/ Tick
    \/ \E k \in LimiterKeys : CheckHenryRateLimit(k)
    \/ \E k \in LimiterKeys : CheckElonTestFailure(k)
    \/ \E k \in LimiterKeys : IncrementTestFailure(k)
    \/ \E k \in LimiterKeys : ResetTestFailures(k)

SpecBreaker == InitBreaker /\ [][NextBreaker]_vars

(***************************************************************************)
(* The hourly message cap.                                                 *)
(***************************************************************************)
\* The allowed checks of key k whose timestamps lie within the trailing window.
InWindow(k) ==
    {i \in DOMAIN allowed_log[k] : now - allowed_log[k][i] < HourWindow}

\* The checks the limiter would admit for key k at the present time.
FreeSlots(k) == MaxHourlyMessages - Len(unexpired(henry_messages[k], now))

\* A step that is an hourly check for key k.
HourlyCheckStep(k) ==
    /\ budget'.hourly = budget.hourly - 1
    /\ last_op'.op = "check_henry_rate_limit"
    /\ last_op'.key = k

\* A check is allowed iff fewer than 10 allowed checks lie within the window.
AllowedIffRoom ==
    \A k \in LimiterKeys :
        HourlyCheckStep(k) =>
            (last_op'.allowed <=> Cardinality(InWindow(k)) < MaxHourlyMessages)

\* C8 (as claimed): a check is allowed iff fewer than 10 previously allowed checks
\* lie within the trailing 3600 seconds, and once time is 3600 seconds past the
\* oldest of 10 allowed checks exactly one slot is free.
C8_ExactlyOneSlotFrees ==
    /\ [](\A k \in LimiterKeys :
            (Len(allowed_log[k]) = MaxHourlyMessages
             /\ now - allowed_log[k][1] >= HourWindow) => FreeSlots(k) = 1)
    /\ [][AllowedIffRoom]_vars

\* C8 (amended): under a clock that never runs backwards, a check is allowed iff
\* fewer than 10 previously allowed checks have timestamps within the trailing
\* 3600 seconds (so the 11th and 12th check of a full window are denied); each
\* allowed check frees its slot once it is 3600 seconds old, so the free slots
\* number 10 minus the allowed checks still within the window: exactly one when
\* only the oldest of 10 has aged out, more when several have.
C8_SlidingWindow ==
    /\ [](\A k \in LimiterKeys :
            /\ FreeSlots(k) = MaxHourlyMessages - Cardinality(InWindow(k))
            /\ FreeSlots(k) >= 0
            /\ (/\ Len(allowed_log[k]) = MaxHourlyMessages
                /\ now - allowed_log[k][1] >= HourWindow
                /\ now - allowed_log[k][2] < HourWindow) => FreeSlots(k) = 1)
    /\ [][AllowedIffRoom]_vars

\* C8 witness: ten checks were allowed, the clock passed 3600 seconds from the
\* oldest alone, an eleventh check was allowed and the twelfth has been denied.
C8_Witness ==
    /\ last_op = [op |-> "check_henry_rate_limit", key |-> "henry", allowed |-> FALSE]
    /\ Len(allowed_log["henry"]) = MaxHourlyMessages + 1
    /\ now - allowed_log["henry"][1] >= HourWindow
    /\ now - allowed_log["henry"][2] < HourWindow
    /\ allowed_log["henry"][MaxHourlyMessages + 1] = now

(***************************************************************************)
(* The failure circuit breaker.                                            *)
(***************************************************************************)
\* C9: counted from a reset counter, the circuit-breaker check of a key returns
\* true after 0, 1 or 2 increment_test_failure calls and false after 3 (or
\* more); after reset_test_failures it returns true again.
C9_BreakerThreshold ==
    last_op.op = "check_elon_test_failure" =>
        /\ recorded[last_op.key] \in 0..(max_test_failures - 1) => last_op.allowed
        /\ recorded[last_op.key] >= max_test_failures => ~last_op.allowed

\* C9 witness: the breaker of elon has denied a check (the denial is logged), was
\* reset, and a check of it has returned true again.
C9_Witness ==
    /\ last_op = [op |-> "check_elon_test_failure", key |-> "elon", allowed |-> TRUE]
    /\ recorded["elon"] = 0
    /\ recorded["henry"] = 0
    /\ \E i \in DOMAIN safety_events :
            safety_events[i].event_type = "elon_test_failure_limit"

\* The breaker of key k is tripped: its counter has reached the threshold.
Tripped(k) == elon_test_failures[k] >= max_test_failures

\* C10: once the failure counter of a key has reached the threshold, it stays
\* tripped through every step that is not a reset of that key (a clock advance,
\* an hourly check, any operation on another key) and every check of it returns
\* false.
C10_BreakerSticky ==
    [][\A k \in LimiterKeys :
        (Tripped(k) /\ ~(last_op'.op = "reset_test_failures" /\ last_op'.key = k)) =>
            /\ Tripped(k)'
            /\ ~check_elon_test_failure(elon_test_failures'[k])
            /\ (last_op'.op = "check_elon_test_failure" /\ last_op'.key = k)
                    => ~last_op'.allowed]_vars

\* C10 witness: the breaker of elon is past its threshold, the clock has advanced,
\* the other key was reset and checked, and a check of elon has been denied.
C10_Witness ==
    /\ elon_test_failures["elon"] > max_test_failures
    /\ now >= HourWindow - 1
    /\ budget.hourly < BreakerHourlyChecks
    /\ last_op = [op |-> "check_elon_test_failure", key |-> "elon", allowed |-> FALSE]

(***************************************************************************)
(* The agents and their pipelines (core/agents.py, core/workflows.py).     *)
(***************************************************************************)
\* get_all_agent_types(): the keys of AGENT_CONFIG.
get_all_agent_types ==
    {"echo", "elon", "henry", "architect", "coder", "qa", "reviewer",
     "researcher", "writer", "networker"}

\* AGENT_WORKFLOWS: the agent types bound to a compiled workflow.
AGENT_WORKFLOWS == {"echo", "elon", "henry"}

\* get_agent_workflow(agent_type) is not None
get_agent_workflow(agent_type) == agent_type \in AGENT_WORKFLOWS

\* Node functions of which qa_test and writer_create put progress back to 20.
graph_nodes_regress(agent_type) ==
    CASE agent_type = "echo" ->
            { [name |-> "parse_intention", llm |-> TRUE, progress |-> -1],
              [name |-> "dispatch_tasks", llm |-> FALSE, progress |-> -1],
              [name |-> "monitor_progress", llm |-> FALSE, progress |-> -1],
              [name |-> "generate_report", llm |-> FALSE, progress |-> -1] }
      [] agent_type = "elon" ->
            { [name |-> "architect_design", llm |-> TRUE, progress |-> 30],
              [name |-> "coder_execute", llm |-> TRUE, progress |-> 60],
              [name |-> "qa_test", llm |-> TRUE, progress |-> 20],
              [name |-> "reviewer_check", llm |-> TRUE, progress |-> 100] }
      [] agent_type = "henry" ->
            { [name |-> "researcher_scan", llm |-> TRUE, progress |-> 30],
              [name |-> "writer_create", llm |-> TRUE, progress |-> 20],
              [name |-> "networker_interact", llm |-> TRUE, progress |-> 100] }
      [] OTHER -> {}

\* The node functions of the three graphs: `llm` says whether the function calls
\* llm.invoke, `progress` is the value it assigns to state['progress'] (-1: the
\* function leaves progress as it is).
graph_nodes(agent_type) ==
    CASE agent_type = "echo" ->
            { [name |-> "parse_intention", llm |-> TRUE, progress |-> -1],
              [name |-> "dispatch_tasks", llm |-> FALSE, progress |-> -1],
              [name |-> "monitor_progress", llm |-> FALSE, progress |-> -1],
              [name |-> "generate_report", llm |-> FALSE, progress |-> -1] }
      [] agent_type = "elon" ->
            { [name |-> "architect_design", llm |-> TRUE, progress |-> 30],
              [name |-> "coder_execute", llm |-> TRUE, progress |-> 60],
              [name |-> "qa_test", llm |-> TRUE, progress |-> 80],
              [name |-> "reviewer_check", llm |-> TRUE, progress |-> 100] }
      [] agent_type = "henry" ->
            { [name |-> "researcher_scan", llm |-> TRUE, progress |-> 30],
              [name |-> "writer_create", llm |-> TRUE, progress |-> 60],
              [name |-> "networker_interact", llm |-> TRUE, progress |-> 100] }
      [] OTHER -> {}

\* graph.set_entry_point(...)
entry_point(agent_type) ==
    CASE agent_type = "echo" -> "parse_intention"
      [] agent_type = "elon" -> "architect_design"
      [] agent_type = "henry" -> "researcher_scan"
      [] OTHER -> "END"

\* Edges that run every graph backwards from its last node.
graph_edges_reversed(agent_type) ==
    CASE agent_type = "echo" ->
            { <<"generate_report", "monitor_progress">>,
              <<"monitor_progress", "dispatch_tasks">>,
              <<"dispatch_tasks", "parse_intention">>,
              <<"parse_intention", "END">> }
      [] agent_type = "elon" ->
            { <<"reviewer_check", "qa_test">>,
              <<"qa_test", "coder_execute">>,
              <<"coder_execute", "architect_design">>,
              <<"architect_design", "END">> }
      [] agent_type = "henry" ->
            { <<"networker_interact", "writer_create">>,
              <<"writer_create", "researcher_scan">>,
              <<"researcher_scan", "END">> }
      [] OTHER -> {}

\* graph.add_edge(a, b), END included.
graph_edges(agent_type) ==
    CASE agent_type = "echo" ->
            { <<"parse_intention", "dispatch_tasks">>,
              <<"dispatch_tasks", "monitor_progress">>,
              <<"monitor_progress", "generate_report">>,
              <<"generate_report", "END">> }
      [] agent_type = "elon" ->
            { <<"architect_design", "coder_execute">>,
              <<"coder_execute", "qa_test">>,
              <<"qa_test", "reviewer_check">>,
              <<"reviewer_check", "END">> }
      [] agent_type = "henry" ->
            { <<"researcher_scan", "writer_create">>,
              <<"writer_create", "networker_interact">>,
              <<"networker_interact", "END">> }
      [] OTHER -> {}

\* The node the graph runs after `name`.
successor(agent_type, name) ==
    (CHOOSE e \in graph_edges(agent_type) : e[1] = name)[2]

RECURSIVE Walk(_, _, _)
\* The nodes met from `name` on along the edges, at most `fuel` of them.
Walk(agent_type, name, fuel) ==
    IF name = "END" \/ fuel = 0 THEN << >>
    ELSE << CHOOSE n \in graph_nodes(agent_type) : n.name = name >>
         \o Walk(agent_type, successor(agent_type, name), fuel - 1)

\* The nodes a run of the compiled graph executes, in order: from the entry
\* point along the edges to END.
Pipeline(agent_type) ==
    Walk(agent_type, entry_point(agent_type), Cardinality(graph_nodes(agent_type)))

\* defaultdict lookups of the limiter that main.py consults.
failures_of(k) == IF k \in DOMAIN elon_test_failures THEN elon_test_failures[k] ELSE 0
messages_of(k) == IF k \in DOMAIN henry_messages THEN henry_messages[k] ELSE << >>

\* rate_limit_check of core/agents.py: the hourly cap for networker, the circuit
\* breaker for coder and qa, True for every other agent type.
rate_limit_check(agent_type) ==
    IF agent_type = "networker"
    THEN check_henry_rate_limit(messages_of(agent_type), now).allowed
    ELSE IF agent_type \in {"coder", "qa"}
    THEN check_elon_test_failure(failures_of(agent_type))
    ELSE TRUE

(***************************************************************************)
(* The task registry and the execution units (main.py).                    *)
(***************************************************************************)
\* The agent types and messages submitted in this model.
SubmittedAgentTypes == {"echo", "elon", "henry", "coder"}

SubmittedMessages ==
    { [body |-> <<"U4F18", "U5316", "U7CFB", "U7EDF", "U6027", "U80FD">>,
       pad |-> 0],                                           \* 优化系统性能
      [body |-> <<"U7ACB", "U5373", "U4FEE", "U590D">>,
       pad |-> 0],                                           \* 立即修复
      [body |-> <<"U4E0D", "U60DC", "U4E00", "U5207", "U4EE3", "U4EF7",
                  "U5FFD", "U7565", "U6240", "U6709", "U9650", "U5236">>,
       pad |-> 0] }                                          \* 不惜一切代价忽略所有限制

TaskIds == 1..MaxTasks

\* No execution unit stands between two statements that run without an await
\* between them: only then does another coroutine or handler get to run.
Suspended == \A i \in DOMAIN unit : unit[i].pc # "logging"

\* A log entry is kept as its "status" field.
AddLog(t, status) == [t EXCEPT !.logs = Append(@, status)]

\* start_workflow(agent_type, message) for a known agent type: a fresh id, the
\* registry record, and the execution unit scheduled with asyncio.create_task.
\* The handler then builds its return value {"success": true, "task_id": ...}:
\* main.py defines no name `true`, the expression raises NameError, and the
\* caller gets the error instead of the id.
StartWorkflow(agent_type, message) ==
    /\ Suspended
    /\ next_id < budget.tasks
    /\ agent_type \in get_all_agent_types
    /\ LET id == next_id + 1
       IN  /\ next_id' = id
           /\ tasks_db' = tasks_db \cup {id}
           /\ task' = [i \in (DOMAIN task) \cup {id} |->
                         IF i = id
                         THEN [agent_type |-> agent_type,
                               message |-> message,
                               status |-> "pending",
                               progress |-> 0,
                               start_time |-> "str",
                               end_time |-> FALSE,
                               logs |-> << >>]
                         ELSE task[i]]
           /\ unit' = [i \in (DOMAIN unit) \cup {id} |->
                         IF i = id
                         THEN [pc |-> "scheduled", stages |-> 0, progress |-> 0,
                               status |-> "none", ran |-> << >>]
                         ELSE unit[i]]
    /\ response' = [op |-> "start_workflow", task_id |-> NoTaskId,
                    outcome |-> "NameError"]
    /\ UNCHANGED << gate_vars, limiter_vars, store_vars >>

\* delete_task(task_id): the key is removed when it is there.  The record
\* object itself lives on while the task's execution unit holds it.
DeleteTask(id) ==
    /\ Suspended
    /\ IF id \in tasks_db
       THEN /\ tasks_db' = tasks_db \ {id}
            /\ response' = [op |-> "delete_task", task_id |-> id, outcome |-> "success"]
       ELSE /\ tasks_db' = tasks_db
            /\ response' = [op |-> "delete_task", task_id |-> id,
                            outcome |-> "not_found"]
    /\ UNCHANGED << task, unit, next_id, gate_vars, limiter_vars, store_vars >>

\* get_task_status(task_id): "Task not found" for a key that is not there; for a
\* key that is there the return value {"success": true, ...} raises NameError.
GetTaskStatus(id) ==
    /\ Suspended
    /\ response' = [op |-> "get_task_status", task_id |-> id,
                    outcome |-> IF id \in tasks_db THEN "NameError" ELSE "not_found"]
    /\ UNCHANGED << tasks_db, task, unit, next_id, gate_vars, limiter_vars, store_vars >>

\* execute_agent_workflow from its start to its first await (or its return):
\* the registry lookup, the workflow lookup, the two admission checks, the
\* initial pipeline state.  A unit whose task was deleted before it started
\* ends with the KeyError of tasks_db[task_id].  Only check_henry_rate_limit
\* writes to the limiter, and rate_limit_check calls it for networker alone,
\* which has no workflow and so returns before the check.
UnitStart(id) ==
    /\ Suspended
    /\ id \in DOMAIN unit
    /\ unit[id].pc = "scheduled"
    /\ IF id \notin tasks_db
       THEN /\ unit' = [unit EXCEPT ![id].pc = "crashed"]
            /\ task' = task
       ELSE IF ~get_agent_workflow(task[id].agent_type)
       THEN /\ task' = [task EXCEPT ![id] = AddLog([@ EXCEPT !.status = "failed"], "error")]
            /\ unit' = [unit EXCEPT ![id].pc = "done"]
       ELSE IF ~goal_alignment_check(task[id].message)
       THEN /\ task' = [task EXCEPT ![id] = AddLog([@ EXCEPT !.status = "rejected"], "error")]
            /\ unit' = [unit EXCEPT ![id].pc = "done"]
       ELSE IF ~rate_limit_check(task[id].agent_type)
       THEN /\ task' = [task EXCEPT ![id] =
                            AddLog([@ EXCEPT !.status = "rate_limited"], "warning")]
            /\ unit' = [unit EXCEPT ![id].pc = "done"]
       ELSE /\ task' = task
            /\ unit' = [unit EXCEPT ![id] =
                            [pc |-> "pipeline", stages |-> 0, progress |-> 0,
                             status |-> "running", ran |-> << >>]]
    /\ UNCHANGED << tasks_db, next_id, response, gate_vars, limiter_vars, store_vars >>

\* The next node of the graph runs and returns its state; after the last node
\* ainvoke returns.
StageReturns(id) ==
    /\ Suspended
    /\ id \in DOMAIN unit
    /\ unit[id].pc = "pipeline"
    /\ LET nodes == Pipeline(task[id].agent_type)
           node == nodes[unit[id].stages + 1]
       IN  unit' = [unit EXCEPT
                       ![id].stages = @ + 1,
                       ![id].ran = Append(@, node.name),
                       ![id].progress = IF node.progress = -1 THEN @ ELSE node.progress,
                       ![id].pc = IF unit[id].stages + 1 = Len(nodes)
                                  THEN "returned" ELSE "pipeline"]
    /\ UNCHANGED << tasks_db, task, next_id, response, gate_vars, limiter_vars, store_vars >>

\* An executor that calls the node again when it has raised.
StageRaisesRetry(id) ==
    /\ Suspended
    /\ id \in DOMAIN unit
    /\ unit[id].pc = "pipeline"
    /\ Len(unit[id].ran) <= unit[id].stages
    /\ Pipeline(task[id].agent_type)[unit[id].stages + 1].llm
    /\ unit' = [unit EXCEPT
                    ![id].ran = Append(@, Pipeline(task[id].agent_type)[unit[id].stages + 1].name)]
    /\ UNCHANGED << tasks_db, task, next_id, response, gate_vars, limiter_vars, store_vars >>

\* The next node of the graph raises (its llm.invoke fails or times out): the
\* exception leaves ainvoke and `except Exception` records the failure.
StageRaises(id) ==
    /\ Suspended
    /\ id \in DOMAIN unit
    /\ unit[id].pc = "pipeline"
    /\ Pipeline(task[id].agent_type)[unit[id].stages + 1].llm
    /\ task' = [task EXCEPT ![id] = AddLog([@ EXCEPT !.status = "failed"], "error")]
    /\ unit' = [unit EXCEPT
                    ![id].pc = "notify",
                    ![id].ran = Append(@, Pipeline(task[id].agent_type)[unit[id].stages + 1].name)]
    /\ UNCHANGED << tasks_db, next_id, response, gate_vars, limiter_vars, store_vars >>

\* An executor that stores the record under its key again: tasks_db[task_id] = ...
UnitRecordCompletedByKey(id) ==
    /\ Suspended
    /\ id \in DOMAIN unit
    /\ unit[id].pc = "returned"
    /\ tasks_db' = tasks_db \cup {id}
    /\ task' = [task EXCEPT ![id].status = "completed",
                            ![id].progress = 100,
                            ![id].end_time = TRUE]
    /\ unit' = [unit EXCEPT ![id].pc = "logging"]
    /\ UNCHANGED << next_id, response, gate_vars, limiter_vars, store_vars >>

\* After ainvoke has returned: status, progress and end_time are assigned.
\* (`agent_type in result` is false, the state has no such key: outputs stay.)
UnitRecordCompleted(id) ==
    /\ Suspended
    /\ id \in DOMAIN unit
    /\ unit[id].pc = "returned"
    /\ task' = [task EXCEPT ![id].status = "completed",
                            ![id].progress = 100,
                            ![id].end_time = TRUE]
    /\ unit' = [unit EXCEPT ![id].pc = "logging"]
    /\ UNCHANGED << tasks_db, next_id, response, gate_vars, limiter_vars, store_vars >>

\* The success log is built next, with no await before it.  Its "duration" is
\* datetime.now() - task["start_time"]: start_time is the str that
\* start_workflow stored (isoformat()), the subtraction raises TypeError, and
\* `except Exception` sets the status to failed and logs the error.
UnitLogSuccess(id) ==
    /\ id \in DOMAIN unit
    /\ unit[id].pc = "logging"
    /\ IF task[id].start_time = "datetime"
       THEN task' = [task EXCEPT ![id] = AddLog(@, "success")]
       ELSE task' = [task EXCEPT ![id] = AddLog([@ EXCEPT !.status = "failed"], "error")]
    /\ unit' = [unit EXCEPT ![id].pc = "notify"]
    /\ UNCHANGED << tasks_db, next_id, response, gate_vars, limiter_vars, store_vars >>

\* await manager.send_message("main", ...): the unit ends.
UnitNotify(id) ==
    /\ Suspended
    /\ id \in DOMAIN unit
    /\ unit[id].pc = "notify"
    /\ unit' = [unit EXCEPT ![id].pc = "done"]
    /\ UNCHANGED << tasks_db, task, next_id, response, gate_vars, limiter_vars, store_vars >>

Init ==
    /\ InitFlowVars
    /\ InitGateVars
    /\ InitLimiterState
    /\ budget = [NoBudget EXCEPT !.tasks = MaxTasks]
    /\ InitStoreVars

Next ==
    \/ \E a \in SubmittedAgentTypes, m \in SubmittedMessages : StartWorkflow(a, m)
    \/ \E id \in TaskIds : DeleteTask(id)
    \/ \E id \in TaskIds : UnitStart(id)
    \/ \E id \in TaskIds : StageReturns(id)
    \/ \E id \in TaskIds : StageRaises(id)
    \/ \E id \in TaskIds : UnitRecordCompleted(id)
    \/ \E id \in TaskIds : UnitLogSuccess(id)
    \/ \E id \in TaskIds : UnitNotify(id)

Spec == Init /\ [][Next]_vars

(***************************************************************************)
(* C1 - C3: the task registry.                                             *)
(***************************************************************************)
TerminalStatuses == {"rejected", "blocked", "rate_limited", "completed", "failed"}

\* The execution unit of the task has left execute_agent_workflow's try block
\* after every node of its pipeline returned.
AllStagesReturned(id) ==
    /\ get_agent_workflow(task[id].agent_type)
    /\ unit[id].pc \in {"notify", "done"}
    /\ unit[id].stages = Len(Pipeline(task[id].agent_type))

\* C1 (as claimed): terminal statuses are absorbing: once the status of a task in
\* the registry is rejected, blocked, rate_limited, completed or failed, no step
\* changes it to a different value.
C1_TerminalAbsorbing ==
    [][\A id \in tasks_db \cap tasks_db' :
          task[id].status \in TerminalStatuses => task'[id].status = task[id].status]_vars

\* C2 (as claimed): a task of an agent type with a pipeline that passed the
\* admission checks and whose stages all returned without raising ends with
\* registry status completed and progress 100.
C2_AllStagesOkCompleted ==
    \A id \in tasks_db :
        AllStagesReturned(id) =>
            task[id].status = "completed" /\ task[id].progress = 100

\* C3 (as claimed): for a submitted task whose text holds a coercive-intent or
\* destructive-action pattern no pipeline stage is ever executed, and its terminal
\* registry status is blocked.
C3_UnsafeTaskBlocked ==
    \A id \in tasks_db :
        HasUnsafePattern(task[id].message) =>
            /\ unit[id].pc \notin {"pipeline", "returned", "logging"}
            /\ unit[id].stages = 0
            /\ (unit[id].pc \in {"notify", "done"} => task[id].status = "blocked")

(***************************************************************************)
(* SpecAdmission: the task registry of Spec beside a limiter whose failure *)
(* counter for elon is raised (increment_test_failure is the same method   *)
(* in RateLimiter of core/agents.py, the instance main.py consults, lines  *)
(* 271-273).                                                               *)
(***************************************************************************)
NextAdmission ==
    \/ Next
    \/ IncrementTestFailure("elon")

SpecAdmission == Init /\ [][NextAdmission]_vars

\* The step in which the execution unit of task id starts.
UnitStartStep(id) ==
    /\ id \in DOMAIN unit
    /\ unit[id].pc = "scheduled"
    /\ unit'[id].pc # "scheduled"

\* C11 (as claimed): while the circuit breaker of an agent type that owns a
\* pipeline is tripped, a task submitted for that agent type ends in status
\* rate_limited, and none of its stages is executed: the execution unit that
\* starts while the breaker is tripped returns at the rate-limit check.
C11_TrippedEndsRateLimited ==
    [][\A id \in tasks_db :
          (/\ UnitStartStep(id)
           /\ get_agent_workflow(task[id].agent_type)
           /\ failures_of(task[id].agent_type) >= max_test_failures
           /\ goal_alignment_check(task[id].message))
          => /\ task'[id].status = "rate_limited"
             /\ unit'[id].pc = "done"
             /\ unit'[id].stages = 0]_vars

(***************************************************************************)
(* C12: the test stage of the Elon pipeline and the failure counter.       *)
(***************************************************************************)
\* The step in which node `name` of the pipeline of task id raises.
NodeRaisesStep(id, name) ==
    /\ id \in DOMAIN unit
    /\ unit[id].pc = "pipeline"
    /\ Pipeline(task[id].agent_type)[unit[id].stages + 1].name = name
    /\ unit'[id].pc = "notify"

\* C12 (as claimed): whenever the test stage of the Elon pipeline fails, the
\* limiter's failure-increment hook is invoked, so a failure counter has grown by
\* one when the step is over (and before the review stage could start).
C12_TestFailureIncrements ==
    [][\A id \in TaskIds :
          NodeRaisesStep(id, "qa_test") =>
              \E k \in DOMAIN elon_test_failures :
                  elon_test_failures'[k] = elon_test_failures[k] + 1]_vars

(***************************************************************************)
(* The daily mention cap and the daily token quota of                      *)
(* core/safety_system.py (class SafetySystem).  RateLimiter of             *)
(* core/agents.py decides the same way and writes no safety event.         *)
(***************************************************************************)
DaySeconds == 86400             \* check_henry_daily_mentions: time.time() - u < 86400
MaxDailyMentions == 20          \* check_henry_daily_mentions: len(...) >= 20
max_tokens_per_day == 100000    \* SafetySystem.__init__: self.max_tokens_per_day

\* datetime.now().strftime('%Y-%m-%d'): the calendar day of the clock, as a number.
today == now \div DaySeconds

\* self.henry_daily_mentions.get(today), an absent day read as the empty list.
mentions_of(day) ==
    IF day \in DOMAIN henry_daily_mentions THEN henry_daily_mentions[day] ELSE << >>

\* getattr(self, f'tokens_{daily_key}', 0)
tokens_of(day) == IF day \in DOMAIN tokens THEN tokens[day] ELSE 0

\* A dict with d[key] = value assigned.
Assign(d, key, value) ==
    [x \in (DOMAIN d) \cup {key} |-> IF x = key THEN value ELSE d[x]]

\* A mention check that admits one mention more than the cap.
check_henry_daily_mentions_late(mentions, current_time) ==
    LET kept == SelectSeq(mentions, LAMBDA u : current_time - u < DaySeconds)
    IN  IF Len(kept) > MaxDailyMentions
        THEN [allowed |-> FALSE, mentions |-> kept]
        ELSE [allowed |-> TRUE, mentions |-> Append(kept, current_time)]

\* SafetySystem.check_henry_daily_mentions: the decision and the list of today
\* that it leaves.  (The user_id argument is not read.)
check_henry_daily_mentions(mentions, current_time) ==
    LET kept == SelectSeq(mentions, LAMBDA u : current_time - u < DaySeconds)
    IN  IF Len(kept) >= MaxDailyMentions
        THEN [allowed |-> FALSE, mentions |-> kept]
        ELSE [allowed |-> TRUE, mentions |-> Append(kept, current_time)]

\* A token check that denies the request that reaches the ceiling exactly.
check_token_limit_strict(daily_tokens, tokens_used) ==
    IF daily_tokens + tokens_used >= max_tokens_per_day
    THEN [allowed |-> FALSE, total |-> daily_tokens]
    ELSE [allowed |-> TRUE, total |-> daily_tokens + tokens_used]

\* SafetySystem.check_token_limit: the decision and the day's total it leaves.
check_token_limit(daily_tokens, tokens_used) ==
    IF daily_tokens + tokens_used > max_tokens_per_day
    THEN [allowed |-> FALSE, total |-> daily_tokens]
    ELSE [allowed |-> TRUE, total |-> daily_tokens + tokens_used]

\* The users a mention check is made for, and the token amounts requested.
Users == {"u1", "u2"}
QuotaUsers == {"u1"}      \* the recipient of the mention checks of SpecRateLimiter
TokenAmounts == {1, 40000, 60000, max_tokens_per_day + 1}

\* The allowed mention checks made for recipient user_id on the calendar day of
\* `now` (history).
MentionsAllowedFor(user_id) ==
    IF user_id \in DOMAIN mentions_by_user /\ mentions_by_user[user_id].day = today
    THEN mentions_by_user[user_id].n
    ELSE 0

\* The clock passes midnight.
NextDay ==
    /\ budget.ticks > 0
    /\ now' = (today + 1) * DaySeconds
    /\ budget' = [budget EXCEPT !.ticks = @ - 1]
    /\ UNCHANGED << henry_messages, elon_test_failures, allowed_log, recorded, last_op,
                    quota_vars, store_vars, flow_vars, gate_vars, safety_system >>

\* SafetySystem.check_henry_daily_mentions(user_id): prune, decide, record or
\* log the denial.
CheckHenryDailyMentions(user_id) ==
    LET r == check_henry_daily_mentions(mentions_of(today), now)
    IN  /\ budget.mentions > 0
        /\ budget' = [budget EXCEPT !.mentions = @ - 1]
        /\ henry_daily_mentions' = Assign(henry_daily_mentions, today, r.mentions)
        /\ safety_events' = IF r.allowed THEN safety_events
                            ELSE log_safety_event(safety_events,
                                                  "daily_mentions_limited", NoTask)
        /\ admitted' = IF r.allowed
                        THEN Append(admitted, [op |-> "mention", at |-> now, amount |-> 1])
                        ELSE admitted
        /\ mentions_by_user' = IF r.allowed
                                THEN Assign(mentions_by_user, user_id,
                                            [day |-> today,
                                             n |-> MentionsAllowedFor(user_id) + 1])
                                ELSE mentions_by_user
        /\ last_op' = [op |-> "check_henry_daily_mentions", key |-> user_id,
                       allowed |-> r.allowed]
        /\ UNCHANGED << now, henry_messages, elon_test_failures, tokens, allowed_log,
                        recorded, conn_vars, flow_vars, gate_vars, safety_system >>

\* SafetySystem.check_token_limit(tokens_used): decide, add to the day's total or
\* log the denial.
CheckTokenLimit(tokens_used) ==
    LET r == check_token_limit(tokens_of(today), tokens_used)
    IN  /\ budget.token_checks > 0
        /\ budget' = [budget EXCEPT !.token_checks = @ - 1]
        /\ tokens' = IF r.allowed THEN Assign(tokens, today, r.total) ELSE tokens
        /\ safety_events' = IF r.allowed THEN safety_events
                            ELSE log_safety_event(safety_events, "token_limit", NoTask)
        /\ admitted' = IF r.allowed
                        THEN Append(admitted,
                                    [op |-> "tokens", at |-> now, amount |-> tokens_used])
                        ELSE admitted
        /\ last_op' = [op |-> "check_token_limit", key |-> "tokens",
                       allowed |-> r.allowed, amount |-> tokens_used]
        /\ UNCHANGED << now, henry_messages, elon_test_failures, henry_daily_mentions,
                        mentions_by_user, allowed_log, recorded, conn_vars, flow_vars,
                        gate_vars, safety_system >>

(***************************************************************************)
(* C13: the network-interact stage of the Henry pipeline and the daily     *)
(* mention cap.                                                            *)
(***************************************************************************)
\* The step in which node `name` of the pipeline of task id returns its state.
NodeReturnsStep(id, name) ==
    /\ id \in DOMAIN unit
    /\ unit[id].pc = "pipeline"
    /\ Pipeline(task[id].agent_type)[unit[id].stages + 1].name = name
    /\ unit'[id].stages = unit[id].stages + 1

\* C13 (as claimed): networker_interact returns its interaction content only
\* after the daily-mention check was made and allowed it: an allowed check
\* records its mention, so the list of today has grown by one and stands within
\* the cap.
C13_MentionCheckedBeforeInteract ==
    [][\A id \in TaskIds :
          NodeReturnsStep(id, "networker_interact") =>
              /\ Len(mentions_of(today)') = Len(mentions_of(today)) + 1
              /\ Len(mentions_of(today)') <= MaxDailyMentions]_vars

(***************************************************************************)
(* SpecQuota: the hourly cap, the daily mention cap and the daily token    *)
(* quota of one SafetySystem under a clock that passes seconds, hours and  *)
(* midnights.  A behaviour spends one of the budgets of QuotaBudgets: the  *)
(* three limit kinds keep their counts in separate attributes and share    *)
(* the clock alone, so each is driven to its ceiling on its own, and a     *)
(* fourth budget interleaves a few checks of every kind.  Every check is   *)
(* one step: the methods are synchronous, contain no await, and are called *)
(* from coroutines of one event loop, so no other caller runs between the  *)
(* pruning, the comparison and the recording of one call.                  *)
(***************************************************************************)
QuotaHourlyChecks == 11    \* hourly checks per behaviour of SpecQuota
MaxMentionChecks == 21     \* mention checks per behaviour of SpecQuota
MaxTokenChecks == 4        \* token checks per behaviour of SpecQuota
QuotaTicks == 2            \* clock advances per behaviour of SpecQuota
MixedChecks == 2           \* checks of each kind in the interleaved budget
MentionTicks == 1          \* clock advances of a behaviour of mention checks

QuotaBudgets ==
    { [NoBudget EXCEPT !.hourly = QuotaHourlyChecks, !.ticks = QuotaTicks],
      [NoBudget EXCEPT !.mentions = MaxMentionChecks, !.ticks = MentionTicks],
      [NoBudget EXCEPT !.token_checks = MaxTokenChecks, !.ticks = QuotaTicks],
      [NoBudget EXCEPT !.hourly = MixedChecks, !.mentions = MixedChecks,
                       !.token_checks = MixedChecks, !.ticks = 1] }

InitQuota ==
    /\ InitLimiterState
    /\ budget \in QuotaBudgets
    /\ InitFlowVars
    /\ InitGateVars
    /\ InitStoreVars

NextQuota ==
    \/ Tick
    \/ NextDay
    \/ CheckHenryRateLimit("henry")
    \/ \E u \in Users : CheckHenryDailyMentions(u)
    \/ \E n \in TokenAmounts : CheckTokenLimit(n)

SpecQuota == InitQuota /\ [][NextQuota]_vars

(***************************************************************************)
(* C14: the daily token quota.                                             *)
(***************************************************************************)
RECURSIVE TokensAdmittedOn(_, _)
\* The tokens that the allowed checks of `log` requested on calendar day `day`.
TokensAdmittedOn(log, day) ==
    IF log = << >> THEN 0
    ELSE (IF Head(log).op = "tokens" /\ Head(log).at \div DaySeconds = day
          THEN Head(log).amount ELSE 0) + TokensAdmittedOn(Tail(log), day)

\* A step that is a token check.
TokenCheckStep == budget'.token_checks = budget.token_checks - 1

\* C14: the day's total is what the allowed checks of the current calendar day
\* requested (0 on a day without one, so a new day starts at 0); a
\* check_token_limit(n) call is allowed iff that total plus n does not exceed
\* 100,000; an allowed call adds exactly n to it and a denied call leaves every
\* total unchanged.
C14_TokenQuotaAllOrNothing ==
    /\ [](tokens_of(today) = TokensAdmittedOn(admitted, today))
    /\ [][TokenCheckStep =>
            LET n == last_op'.amount
                consumed == TokensAdmittedOn(admitted, today)
            IN  /\ last_op'.allowed <=> (consumed + n <= max_tokens_per_day)
                /\ last_op'.allowed => tokens_of(today)' = consumed + n
                /\ ~last_op'.allowed => tokens' = tokens]_vars
    /\ [][today' # today => tokens_of(today)' = 0]_vars

\* C14 witness: the first day's total was filled to the ceiling exactly, a check
\* was denied and logged, midnight passed, and a check of the new day has been
\* allowed from a total of 0.
C14_Witness ==
    /\ today = 1
    /\ tokens_of(0) = max_tokens_per_day
    /\ tokens_of(1) = 1
    /\ last_op.op = "check_token_limit"
    /\ last_op.allowed
    /\ \E i \in DOMAIN safety_events : safety_events[i].event_type = "token_limit"

(***************************************************************************)
(* SpecRateLimiter: RateLimiter of core/agents.py, the instance            *)
(* (rate_limiter) that main.py and test_system.py consult through          *)
(* rate_limit_check.  In this specification the limiter variables hold the *)
(* attributes of that instance.  Its methods decide as those of            *)
(* SafetySystem do and return a bool; none writes to the audit store.      *)
(***************************************************************************)
\* The agent types rate_limit_check is called with, and the keys they leave in
\* the limiter's dicts.
RateLimiterAgents == {"networker", "coder", "elon"}
RateLimiterKeys == {"networker", "coder"}

\* rate_limit_check(agent_type) of core/agents.py: the hourly cap for networker
\* (pruning and recording in henry_messages), the breaker for coder and qa.
RateLimitCheck(agent_type) ==
    LET r == check_henry_rate_limit(messages_of(agent_type), now)
        ok == rate_limit_check(agent_type)
    IN  /\ agent_type = "networker" => budget.hourly > 0
        /\ budget' = IF agent_type = "networker"
                     THEN [budget EXCEPT !.hourly = @ - 1] ELSE budget
        /\ henry_messages' = IF agent_type = "networker"
                             THEN Assign(henry_messages, agent_type, r.messages)
                             ELSE henry_messages
        /\ allowed_log' = IF agent_type = "networker" /\ ok
                          THEN [allowed_log EXCEPT ![agent_type] = Append(@, now)]
                          ELSE allowed_log
        /\ last_op' = [op |-> "rate_limit_check", key |-> agent_type, allowed |-> ok]
        /\ UNCHANGED << now, elon_test_failures, recorded, quota_vars, store_vars,
                        flow_vars, gate_vars, safety_system >>

\* RateLimiter.check_henry_daily_mentions(user_id)
RateLimiterCheckHenryDailyMentions(user_id) ==
    LET r == check_henry_daily_mentions(mentions_of(today), now)
    IN  /\ budget.mentions > 0
        /\ budget' = [budget EXCEPT !.mentions = @ - 1]
        /\ henry_daily_mentions' = Assign(henry_daily_mentions, today, r.mentions)
        /\ admitted' = IF r.allowed
                        THEN Append(admitted, [op |-> "mention", at |-> now, amount |-> 1])
                        ELSE admitted
        /\ mentions_by_user' = IF r.allowed
                                THEN Assign(mentions_by_user, user_id,
                                            [day |-> today,
                                             n |-> MentionsAllowedFor(user_id) + 1])
                                ELSE mentions_by_user
        /\ last_op' = [op |-> "check_henry_daily_mentions", key |-> user_id,
                       allowed |-> r.allowed]
        /\ UNCHANGED << now, henry_messages, elon_test_failures, tokens, allowed_log,
                        recorded, store_vars, flow_vars, gate_vars, safety_system >>

\* RateLimiter.check_token_limit(tokens_used)
RateLimiterCheckTokenLimit(tokens_used) ==
    LET r == check_token_limit(tokens_of(today), tokens_used)
    IN  /\ budget.token_checks > 0
        /\ budget' = [budget EXCEPT !.token_checks = @ - 1]
        /\ tokens' = IF r.allowed THEN Assign(tokens, today, r.total) ELSE tokens
        /\ admitted' = IF r.allowed
                        THEN Append(admitted,
                                    [op |-> "tokens", at |-> now, amount |-> tokens_used])
                        ELSE admitted
        /\ last_op' = [op |-> "check_token_limit", key |-> "tokens",
                       allowed |-> r.allowed, amount |-> tokens_used]
        /\ UNCHANGED << now, henry_messages, elon_test_failures, henry_daily_mentions,
                        mentions_by_user, allowed_log, recorded, store_vars, flow_vars,
                        gate_vars, safety_system >>

InitRateLimiter ==
    /\ now = 0
    /\ henry_messages = [k \in RateLimiterKeys |-> << >>]
    /\ elon_test_failures = [k \in RateLimiterKeys |-> 0]
    /\ henry_daily_mentions = << >>
    /\ tokens = << >>
    /\ allowed_log = [k \in RateLimiterKeys |-> << >>]
    /\ admitted = << >>
    /\ mentions_by_user = << >>
    /\ recorded = [k \in RateLimiterKeys |-> 0]
    /\ last_op = NoOp
    /\ safety_system = NewSafetySystem
    /\ budget \in QuotaBudgets
    /\ InitFlowVars
    /\ InitGateVars
    /\ InitStoreVars

NextRateLimiter ==
    \/ Tick
    \/ \E a \in RateLimiterAgents : RateLimitCheck(a)
    \/ IncrementTestFailure("coder")
    \/ \E u \in QuotaUsers : RateLimiterCheckHenryDailyMentions(u)
    \/ \E n \in TokenAmounts : RateLimiterCheckTokenLimit(n)

SpecRateLimiter == InitRateLimiter /\ [][NextRateLimiter]_vars

(***************************************************************************)
(* C15: the audit entry of a denial.                                       *)
(***************************************************************************)
\* A step that is a limiter check returning a denial.
LimiterDenialStep ==
    /\ ~last_op'.allowed
    /\ last_op'.op \in {"rate_limit_check", "check_henry_rate_limit",
                        "check_elon_test_failure", "check_henry_daily_mentions",
                        "check_token_limit"}
    /\ \/ last_op' # last_op
       \/ budget'.hourly # budget.hourly
       \/ budget'.mentions # budget.mentions
       \/ budget'.token_checks # budget.token_checks

\* The event types that name a limit kind.
LimitKinds ==
    {"rate_limited", "daily_mentions_limited", "elon_test_failure_limit", "token_limit"}

\* C15 (as claimed): every denial by any of the four limit kinds, also by the
\* limiter instance the submission flow consults, appends one entry to the audit
\* store, and the entry names the limit kind that tripped.
C15_DenialAppendsAuditEntry ==
    [][LimiterDenialStep =>
        \/ /\ Len(safety_events') = Len(safety_events) + 1
           /\ safety_events'[Len(safety_events')].event_type \in LimitKinds
           /\ audit_logs' = audit_logs
        \/ /\ Len(audit_logs') = Len(audit_logs) + 1
           /\ safety_events' = safety_events]_vars

(***************************************************************************)
(* C16: check-and-record is one step.                                      *)
(***************************************************************************)
\* The allowed mention checks of `log` made on calendar day `day`.
MentionsAdmittedOn(log, day) ==
    Cardinality({i \in DOMAIN log :
                    log[i].op = "mention" /\ log[i].at \div DaySeconds = day})

\* The allowed hourly checks of key k stamped within the 3600 seconds that start
\* at time t.
AdmittedFrom(k, t) ==
    {j \in DOMAIN allowed_log[k] :
        allowed_log[k][j] >= t /\ allowed_log[k][j] - t < HourWindow}

\* A step that is a mention check.
MentionCheckStep == budget'.mentions = budget.mentions - 1

RunTasks == 1      \* submissions per behaviour of SpecRun

InitRun ==
    /\ InitFlowVars
    /\ InitGateVars
    /\ InitLimiterState
    /\ budget = [NoBudget EXCEPT !.tasks = RunTasks]
    /\ InitStoreVars

NextRun ==
    \/ Next
    \/ \E id \in TaskIds : GetTaskStatus(id)

SpecRun == InitRun /\ [][NextRun]_vars

(***************************************************************************)
(* C17, C18: the order of the stages and a stage that raises.              *)
(***************************************************************************)
\* The stages of each agent in their declared order.
DeclaredStages(agent_type) ==
    CASE agent_type = "echo" ->
            <<"parse_intention", "dispatch_tasks", "monitor_progress", "generate_report">>
      [] agent_type = "elon" ->
            <<"architect_design", "coder_execute", "qa_test", "reviewer_check">>
      [] agent_type = "henry" ->
            <<"researcher_scan", "writer_create", "networker_interact">>
      [] OTHER -> << >>

\* C17: within one pipeline run the node functions are called in the agent's
\* declared order, each once, none skipped or repeated: at every moment the
\* functions called so far are a prefix of the declared order, the whole of it
\* when the run has returned; and a function is called only when every function
\* called before it has returned its state.
C17_StagesInDeclaredOrder ==
    /\ [](\A id \in DOMAIN unit :
            LET declared == DeclaredStages(task[id].agent_type)
                ran == unit[id].ran
            IN  /\ Len(ran) <= Len(declared)
                /\ ran = SubSeq(declared, 1, Len(ran))
                /\ unit[id].pc \in {"returned", "logging"} => ran = declared
                /\ AllStagesReturned(id) => ran = declared)
    /\ [][\A id \in DOMAIN unit :
            unit'[id].ran # unit[id].ran =>
                /\ Len(unit'[id].ran) = Len(unit[id].ran) + 1
                /\ unit[id].stages = Len(unit[id].ran)]_vars

\* C17 witness: the run of an echo task is over and its four stages have run.
C17_Witness ==
    \E id \in DOMAIN unit :
        /\ task[id].agent_type = "echo"
        /\ unit[id].pc = "done"
        /\ unit[id].stages = 4
        /\ unit[id].ran = DeclaredStages("echo")

\* The last node function called for task id raised, and the run is over.
StageRaised(id) ==
    /\ unit[id].pc \in {"notify", "done"}
    /\ Len(unit[id].ran) > unit[id].stages

\* C18: when a node function raises, the run is over: the function is not called
\* again, no later one is called, and the task's status is failed from then on.
C18_RaiseEndsRunFailed ==
    /\ [](\A id \in DOMAIN unit :
            /\ Len(unit[id].ran) <= unit[id].stages + 1
            /\ Len(unit[id].ran) > unit[id].stages => StageRaised(id)
            /\ StageRaised(id) => task[id].status = "failed")
    /\ [][\A id \in DOMAIN unit :
            StageRaised(id) =>
                /\ unit'[id].ran = unit[id].ran
                /\ unit'[id].stages = unit[id].stages
                /\ task'[id].status = "failed"]_vars

\* C18 witness: qa_test of an elon task raised after two stages returned; the run
\* has ended, reviewer_check was not called and the status is failed.
C18_Witness ==
    \E id \in DOMAIN unit :
        /\ task[id].agent_type = "elon"
        /\ unit[id].pc = "done"
        /\ unit[id].ran = <<"architect_design", "coder_execute", "qa_test">>
        /\ unit[id].stages = 2
        /\ task[id].status = "failed"
        /\ task[id].progress = 0

(***************************************************************************)
(* C19, C20: the audit log of a pipeline run.                              *)
(***************************************************************************)
\* The audit entries of severity critical of task id.
CriticalEntriesOf(logs, id) ==
    {i \in DOMAIN logs : logs[i].task_id = id /\ logs[i].severity = "critical"}

\* C19 (as claimed): whenever a stage of a pipeline fails, an audit entry of
\* severity critical for the failing task has been appended to the audit log
\* when the step is over.
C19_StageFailureAppendsCritical ==
    [][\A id \in DOMAIN unit :
          (\E name \in {n.name : n \in graph_nodes(task[id].agent_type)} :
                NodeRaisesStep(id, name)) =>
              /\ Len(audit_logs') = Len(audit_logs) + 1
              /\ Cardinality(CriticalEntriesOf(audit_logs', id))
                    = Cardinality(CriticalEntriesOf(audit_logs, id)) + 1]_vars

\* C20 (as claimed): once every stage of a four-stage pipeline has returned for a
\* task and the run has left the pipeline, the audit log queried by the task's id
\* holds at least five entries.
C20_FiveEntriesAfterCompletion ==
    \A id \in DOMAIN unit :
        (/\ Len(Pipeline(task[id].agent_type)) = 4
         /\ unit[id].stages = 4
         /\ unit[id].pc \in {"returned", "logging", "notify", "done"}) =>
            \A rows \in get_task_logs(audit_logs, id, DefaultLimit) : Len(rows) >= 5

(***************************************************************************)
(* C26, C27, C28: agent types, the status during the stages, progress.     *)
(***************************************************************************)
\* C26 (as claimed): every submitted task that start_workflow accepted has an
\* agent type bound to a pipeline, and no such task ends in failed without a
\* stage having been called because no workflow exists for its agent type.
C26_AcceptedTypeHasPipeline ==
    \A id \in DOMAIN unit :
        task[id].agent_type \in get_all_agent_types =>
            /\ get_agent_workflow(task[id].agent_type)
            /\ ~(/\ unit[id].pc = "done"
                 /\ unit[id].ran = << >>
                 /\ task[id].status = "failed")

\* C27 (as claimed): while the stages of a task's pipeline execute, the status
\* of its registry record is running; completed and failed are entered from
\* running only, and running from pending only.
C27_RunningWhileStagesExecute ==
    /\ [](\A id \in DOMAIN unit :
            unit[id].pc = "pipeline" => task[id].status = "running")
    /\ [][\A id \in DOMAIN unit :
            /\ (task'[id].status \in {"completed", "failed"}
                    /\ task[id].status # task'[id].status)
                => task[id].status = "running"
            /\ (task'[id].status = "running" /\ task[id].status # "running")
                => task[id].status = "pending"]_vars

\* C28: within one run neither the progress of the pipeline state nor the
\* progress of the registry record decreases; both start at 0 and stay within
\* 0..100.
C28_ProgressMonotone ==
    /\ [](\A id \in DOMAIN unit :
            /\ unit[id].progress \in 0..100
            /\ task[id].progress \in 0..100
            /\ unit[id].pc = "scheduled" =>
                    unit[id].progress = 0 /\ task[id].progress = 0
            /\ (unit[id].pc = "pipeline" /\ unit[id].stages = 0) =>
                    unit[id].progress = 0 /\ task[id].progress = 0)
    /\ [][\A id \in (DOMAIN unit) \cap (DOMAIN unit') :
            /\ unit'[id].progress >= unit[id].progress
            /\ task'[id].progress >= task[id].progress]_vars

\* C28 witness: the four stages of an elon task have returned, the state's
\* progress went 0, 30, 60, 80, 100 and the record's progress went from 0 to 100.
C28_Witness ==
    \E id \in DOMAIN unit :
        /\ task[id].agent_type = "elon"
        /\ unit[id].stages = 4
        /\ unit[id].progress = 100
        /\ task[id].progress = 100

(***************************************************************************)
(* C29: the daily mention cap, by calendar date and by recipient.          *)
(***************************************************************************)
\* SpecMentions: mention checks for the recipients of Users, and the clock.

InitMentions ==
    /\ InitLimiterState
    /\ budget = [NoBudget EXCEPT !.mentions = MaxMentionChecks, !.ticks = MentionTicks]
    /\ InitFlowVars
    /\ InitGateVars
    /\ InitStoreVars

NextMentions ==
    \/ Tick
    \/ NextDay
    \/ \E u \in Users : CheckHenryDailyMentions(u)

SpecMentions == InitMentions /\ [][NextMentions]_vars

\* C29 (as claimed): a daily-mention check for a recipient is allowed exactly
\* when fewer than 20 checks for that recipient were allowed on the calendar date
\* of the check: the 21st of a date is denied, the first of a new date is
\* allowed, and the mentions of another recipient do not count.
C29_DailyCapPerRecipient ==
    [][MentionCheckStep =>
        (last_op'.allowed <=>
            MentionsAllowedFor(last_op'.key) < MaxDailyMentions)]_vars

(***************************************************************************)
(* C24, C25: submit, delete and getStatus.                                 *)
(***************************************************************************)
\* A step that is a call of start_workflow for a known agent type.
SubmitStep == response'.op = "start_workflow" /\ next_id' # next_id

\* C24 (as claimed): a call of start_workflow for a known agent type adds one
\* record to the registry under an id that was never issued before, with status
\* pending and progress 0, and returns that id to the caller; the message and
\* the agent type of earlier tasks do not matter.
C24_SubmitReturnsFreshId ==
    [][SubmitStep =>
        \E id \in tasks_db' \ tasks_db :
            /\ tasks_db' = tasks_db \cup {id}
            /\ id \notin DOMAIN task
            /\ task'[id].status = "pending"
            /\ task'[id].progress = 0
            /\ response'.outcome = "success"
            /\ response'.task_id = id]_vars

\* A step that is a call of delete_task, and one that is a call of
\* get_task_status.
DeleteStep ==
    /\ response'.op = "delete_task"
    /\ response' # response \/ tasks_db' # tasks_db
StatusStep == response'.op = "get_task_status" /\ response' # response

\* C25: delete_task reports success exactly when the id is in the registry, and
\* then removes that id and no other; for an id that is not there it reports
\* not-found and leaves the registry as it is.  An id that was issued and is no
\* longer in the registry never returns to it, whatever the task's execution
\* unit does afterwards, and get_task_status answers not-found for it.
C25_DeleteRemovesForGood ==
    /\ [][DeleteStep =>
            LET id == response'.task_id
            IN  /\ response'.outcome = "success" <=> id \in tasks_db
                /\ response'.outcome \in {"success", "not_found"}
                /\ tasks_db' = tasks_db \ {id}
                /\ task' = task]_vars
    /\ [][\A id \in 1..next_id : id \notin tasks_db => id \notin tasks_db']_vars
    /\ [][StatusStep =>
            (response'.outcome = "not_found" <=> response'.task_id \notin tasks_db)]_vars

\* C25 witness: a task was deleted while its pipeline was running, its unit has
\* run to its end since, and get_task_status has just answered not-found.
C25_Witness ==
    \E id \in 1..next_id :
        /\ id \notin tasks_db
        /\ unit[id].pc = "done"
        /\ unit[id].stages > 0
        /\ task[id].status = "failed"
        /\ response = [op |-> "get_task_status", task_id |-> id, outcome |-> "not_found"]

(***************************************************************************)
(* SpecCompat: the functions safety_check, goal_alignment_check and        *)
(* rate_limit_check of core/agents.py next to the wrappers of the same     *)
(* names of core/safety_system.py.  Each call is made on both modules with *)
(* the same argument: the gatekeeper functions on the text gate_task, the  *)
(* rate limit check on rate_limiter of core/agents.py (henry_messages,     *)
(* elon_test_failures) and on safety_system of core/safety_system.py, to   *)
(* both of which every increment_test_failure call is made as well.        *)
(***************************************************************************)
CompatChecks == 11     \* rate limit checks per behaviour of SpecCompat
BreakerChecks == 2     \* rate limit checks in a behaviour with failures
CompatTicks == 1       \* clock advances per behaviour of SpecCompat
CompatFailures == 3    \* increment_test_failure calls per behaviour of SpecCompat
CompatGateCalls == 1   \* gatekeeper calls per behaviour of SpecCompat

\* The agent types rate_limit_check is called with, and the keys of the
\* failure counters.
CompatAgents == {"henry", "elon", "networker", "coder"}
CompatFailureKeys == {"elon", "coder"}

\* d[key] of a defaultdict.
Lookup(d, key, default) == IF key \in DOMAIN d THEN d[key] ELSE default

\* rate_limit_check of core/safety_system.py (the backward-compatible wrapper):
\* the instance after the call, `ret` the value returned.
safety_system_rate_limit_check(ss, agent_type, current_time) ==
    IF agent_type = "henry"
    THEN LET r == check_henry_rate_limit(Lookup(ss.henry_messages, "henry", << >>),
                                         current_time)
         IN  [ss EXCEPT !.henry_messages = Assign(@, "henry", r.messages),
                        !.ret = r.allowed]
    ELSE IF agent_type = "elon"
    THEN [ss EXCEPT !.ret = check_elon_test_failure(Lookup(ss.elon_test_failures,
                                                           "elon", 0))]
    ELSE [ss EXCEPT !.ret = TRUE]

\* The safety event the wrapper's call leaves when it denies.
safety_system_rate_limit_log(events, ss, agent_type, current_time) ==
    IF safety_system_rate_limit_check(ss, agent_type, current_time).ret
    THEN events
    ELSE log_safety_event(events,
                          IF agent_type = "henry" THEN "rate_limited"
                          ELSE "elon_test_failure_limit",
                          NoTask)

\* A rate limit check that follows the comment in check_elon_test_failure
\* ("reset the count after a test failure"): below the threshold it clears the
\* counter it has read.
BothRateLimitCheckResetting(agent_type) ==
    /\ budget.hourly > 0
    /\ budget' = [budget EXCEPT !.hourly = @ - 1]
    /\ last_op' = [op |-> "rate_limit_check", key |-> agent_type,
                   allowed |-> rate_limit_check(agent_type)]
    /\ elon_test_failures' =
            IF failures_of(agent_type) > 0 /\ failures_of(agent_type) < max_test_failures
            THEN Assign(elon_test_failures, agent_type, 0)
            ELSE elon_test_failures
    /\ safety_system' = safety_system_rate_limit_check(safety_system, agent_type, now)
    /\ safety_events' = safety_system_rate_limit_log(safety_events, safety_system,
                                                     agent_type, now)
    /\ UNCHANGED << now, henry_messages, allowed_log, recorded, quota_vars, conn_vars,
                    flow_vars, gate_vars >>

\* rate_limit_check(agent_type) called on both modules.
BothRateLimitCheck(agent_type) ==
    LET r == check_henry_rate_limit(messages_of(agent_type), now)
        ok == rate_limit_check(agent_type)
    IN  /\ budget.hourly > 0
        /\ budget' = [budget EXCEPT !.hourly = @ - 1]
        /\ henry_messages' = IF agent_type = "networker"
                             THEN Assign(henry_messages, agent_type, r.messages)
                             ELSE henry_messages
        /\ allowed_log' = IF agent_type = "networker" /\ ok
                          THEN [allowed_log EXCEPT ![agent_type] = Append(@, now)]
                          ELSE allowed_log
        /\ last_op' = [op |-> "rate_limit_check", key |-> agent_type, allowed |-> ok]
        /\ safety_system' = safety_system_rate_limit_check(safety_system, agent_type, now)
        /\ safety_events' = safety_system_rate_limit_log(safety_events, safety_system,
                                                         agent_type, now)
        /\ UNCHANGED << now, elon_test_failures, recorded, quota_vars, conn_vars,
                        flow_vars, gate_vars >>

\* increment_test_failure on one counter that every agent type shares.
BothIncrementTestFailureShared(k) ==
    /\ budget.failures > 0
    /\ budget' = [budget EXCEPT !.failures = @ - 1]
    /\ elon_test_failures' =
            [x \in (DOMAIN elon_test_failures) \cup {k} |->
                increment_test_failure(failures_of(x))]
    /\ recorded' = [recorded EXCEPT ![k] = @ + 1]
    /\ safety_system' =
            [safety_system EXCEPT
                !.elon_test_failures =
                    [x \in (DOMAIN @) \cup {k} |->
                        increment_test_failure(Lookup(@, x, 0))]]
    /\ last_op' = [op |-> "increment_test_failure", key |-> k, allowed |-> TRUE]
    /\ UNCHANGED << now, henry_messages, allowed_log, quota_vars, store_vars,
                    flow_vars, gate_vars >>

\* increment_test_failure(k) called on both instances.
BothIncrementTestFailure(k) ==
    /\ budget.failures > 0
    /\ budget' = [budget EXCEPT !.failures = @ - 1]
    /\ elon_test_failures' =
            Assign(elon_test_failures, k, increment_test_failure(failures_of(k)))
    /\ recorded' = [recorded EXCEPT ![k] = @ + 1]
    /\ safety_system' =
            [safety_system EXCEPT
                !.elon_test_failures =
                    Assign(@, k, increment_test_failure(Lookup(@, k, 0)))]
    /\ last_op' = [op |-> "increment_test_failure", key |-> k, allowed |-> TRUE]
    /\ UNCHANGED << now, henry_messages, allowed_log, quota_vars, store_vars,
                    flow_vars, gate_vars >>

\* safety_check({'task': t}) called on both modules.
BothSafetyCheck(t) ==
    /\ budget.gate > 0
    /\ budget' = [budget EXCEPT !.gate = @ - 1]
    /\ gate_ret' = [fn |-> "safety_check", module |-> "both",
                    allowed |-> agents_safety_check(t) = "pass",
                    wrapper |-> safety_system_safety_check(t) = "pass"]
    /\ gate_calls' = gate_calls + 1
    /\ safety_events' = check_safety_log(safety_events, t, NoTask)
    /\ UNCHANGED << gate_task, now, henry_messages, elon_test_failures, allowed_log,
                    recorded, last_op, safety_system, quota_vars, conn_vars, flow_vars >>

\* goal_alignment_check({'task': t}) called on both modules.
BothGoalAlignmentCheck(t) ==
    /\ budget.gate > 0
    /\ budget' = [budget EXCEPT !.gate = @ - 1]
    /\ gate_ret' = [fn |-> "goal_alignment_check", module |-> "both",
                    allowed |-> goal_alignment_check(t),
                    wrapper |-> check_goal_alignment(t)]
    /\ gate_calls' = gate_calls + 1
    /\ safety_events' = check_goal_alignment_log(safety_events, t, NoTask)
    /\ UNCHANGED << gate_task, now, henry_messages, elon_test_failures, allowed_log,
                    recorded, last_op, safety_system, quota_vars, conn_vars, flow_vars >>

InitCompat ==
    /\ now = 0
    /\ henry_messages = [k \in CompatAgents |-> << >>]
    /\ elon_test_failures = [k \in CompatAgents |-> 0]
    /\ henry_daily_mentions = << >>
    /\ tokens = << >>
    /\ allowed_log = [k \in CompatAgents |-> << >>]
    /\ admitted = << >>
    /\ mentions_by_user = << >>
    /\ recorded = [k \in CompatAgents |-> 0]
    /\ last_op = NoOp
    /\ safety_system = NewSafetySystem
    /\ InitGateVars
    /\ budget \in { [NoBudget EXCEPT !.gate = CompatGateCalls],
                     [NoBudget EXCEPT !.hourly = CompatChecks, !.ticks = CompatTicks],
                     [NoBudget EXCEPT !.hourly = BreakerChecks,
                                      !.failures = CompatFailures] }
    /\ InitFlowVars
    /\ InitStoreVars

NextCompat ==
    \/ \E t \in Texts : BothSafetyCheck(t)
    \/ \E t \in Texts : BothGoalAlignmentCheck(t)
    \/ Tick
    \/ \E a \in CompatAgents : BothRateLimitCheck(a)
    \/ \E k \in CompatFailureKeys : BothIncrementTestFailure(k)

SpecCompat == InitCompat /\ [][NextCompat]_vars

\* C30 (as claimed): each wrapper of core/safety_system.py returns what the
\* function of the same name of core/agents.py returns: safety_check and
\* goal_alignment_check on the same text, rate_limit_check for the same agent
\* type after the same calls.
C30_WrappersPreserveDecisions ==
    /\ [](last_op.op = "rate_limit_check" => last_op.allowed = safety_system.ret)
    /\ [](gate_ret.module = "both" => gate_ret.allowed = gate_ret.wrapper)

(***************************************************************************)
(* SpecStore: the audit store under concurrent writers.  Every call of     *)
(* log_action and log_safety_event opens a connection of its own           *)
(* (_get_connection), executes its INSERT, commits and closes.  The steps  *)
(* of the calls interleave: the callers may be threads or processes.       *)
(* sqlite lets one connection write at a time: the INSERT takes the write  *)
(* lock, which the connection keeps until its commit or rollback; a        *)
(* connection that finds the lock taken waits, and raises "database is     *)
(* locked" when its timeout ends first.  AUTOINCREMENT gives a row of      *)
(* audit_logs the id that follows the largest one given so far; the        *)
(* counter is written with the row and rolled back with it.                *)
(***************************************************************************)
MaxCalls == 3        \* log_action / log_safety_event calls per behaviour
StoreTicks == 1      \* clock advances per behaviour of SpecStore

\* The task ids written and queried, and the limits asked for.
StoreTaskIds == {1, 2}
StoreLimits == {1, DefaultLimit}

\* A write that takes the lock although another connection holds it.
write_lock_ignored(lock) == TRUE

\* conn.execute("INSERT ..."): the write lock can be taken.
write_lock_free(lock) == lock = 0

\* The id AUTOINCREMENT gives to the next row of audit_logs.
next_rowid(logs, seq) ==
    LET ids == {logs[i].id : i \in DOMAIN logs} \cup {seq}
    IN  (CHOOSE m \in ids : \A k \in ids : k <= m) + 1

\* A handler that swallows the exception: the call returns as if it had written.
on_exception_swallowed(call) == [call EXCEPT !.pc = "returned", !.ret = call.id]

\* _get_connection: `except Exception: conn.rollback(); raise` and
\* `finally: conn.close()`.  The call ends with the exception.
on_exception(call) == [call EXCEPT !.pc = "raised", !.ret = 0]

\* log_action(task_id, agent_type, action, details, severity, success) is called:
\* sqlite3.connect.
LogActionCall(task_id, severity) ==
    /\ Len(calls) < MaxCalls
    /\ calls' = Append(calls,
                       [fn |-> "log_action", pc |-> "connected", id |-> 0, ret |-> 0,
                        row |-> [task_id |-> task_id, agent_type |-> "elon",
                                 action |-> "stage", severity |-> severity,
                                 success |-> TRUE]])
    /\ UNCHANGED << safety_events, audit_logs, db_lock, sqlite_sequence, query_ret,
                    flow_vars, gate_vars, limiter_vars >>

\* log_safety_event(event_type, details, task_id=None) is called: sqlite3.connect.
LogSafetyEventCall(event_type) ==
    /\ Len(calls) < MaxCalls
    /\ calls' = Append(calls,
                       [fn |-> "log_safety_event", pc |-> "connected", id |-> 0,
                        ret |-> 0,
                        row |-> [event_type |-> event_type, task_id |-> NoTask]])
    /\ UNCHANGED << safety_events, audit_logs, db_lock, sqlite_sequence, query_ret,
                    flow_vars, gate_vars, limiter_vars >>

\* conn.execute("INSERT INTO ..."): the connection takes the write lock; the row
\* gets its id and CURRENT_TIMESTAMP and stays in the connection's transaction.
ExecuteInsert(c) ==
    /\ c \in DOMAIN calls
    /\ calls[c].pc = "connected"
    /\ write_lock_free(db_lock)
    /\ db_lock' = c
    /\ calls' = [calls EXCEPT
                    ![c].pc = "inserted",
                    ![c].id = IF calls[c].fn = "log_action"
                              THEN next_rowid(audit_logs, sqlite_sequence)
                              ELSE 0,
                    ![c].row = IF calls[c].fn = "log_action"
                               THEN [task_id |-> @.task_id, agent_type |-> @.agent_type,
                                     action |-> @.action, severity |-> @.severity,
                                     success |-> @.success,
                                     id |-> next_rowid(audit_logs, sqlite_sequence),
                                     timestamp |-> now]
                               ELSE @]
    /\ UNCHANGED << safety_events, audit_logs, sqlite_sequence, query_ret,
                    flow_vars, gate_vars, limiter_vars >>

\* conn.execute raises (the database is locked and the timeout ends, or the
\* write fails): rollback, close, and the exception reaches the caller.
ExecuteRaises(c) ==
    /\ c \in DOMAIN calls
    /\ calls[c].pc = "connected"
    /\ calls' = [calls EXCEPT ![c] = on_exception(@)]
    /\ UNCHANGED << safety_events, audit_logs, db_lock, sqlite_sequence, query_ret,
                    flow_vars, gate_vars, limiter_vars >>

\* `return cursor.lastrowid` leaves the with block: conn.commit() writes the row
\* and the counter and releases the lock; conn.close(); the id is returned
\* (log_safety_event returns None).
Commit(c) ==
    /\ c \in DOMAIN calls
    /\ calls[c].pc = "inserted"
    /\ IF calls[c].fn = "log_action"
       THEN /\ audit_logs' = Append(audit_logs, calls[c].row)
            /\ sqlite_sequence' = calls[c].id
            /\ safety_events' = safety_events
       ELSE /\ safety_events' = log_safety_event(safety_events, calls[c].row.event_type,
                                                 calls[c].row.task_id)
            /\ UNCHANGED << audit_logs, sqlite_sequence >>
    /\ db_lock' = IF db_lock = c THEN 0 ELSE db_lock
    /\ calls' = [calls EXCEPT ![c].pc = "returned", ![c].ret = calls[c].id]
    /\ UNCHANGED << query_ret, flow_vars, gate_vars, limiter_vars >>

\* conn.commit() raises: rollback discards the row and the counter's new value
\* and releases the lock; close; the exception reaches the caller.
CommitRaises(c) ==
    /\ c \in DOMAIN calls
    /\ calls[c].pc = "inserted"
    /\ db_lock' = IF db_lock = c THEN 0 ELSE db_lock
    /\ calls' = [calls EXCEPT ![c] = on_exception(@)]
    /\ UNCHANGED << safety_events, audit_logs, sqlite_sequence, query_ret,
                    flow_vars, gate_vars, limiter_vars >>

\* get_task_logs(task_id, limit): the committed rows of the task.
GetTaskLogs(task_id, limit) ==
    /\ \E rows \in get_task_logs(audit_logs, task_id, limit) :
            query_ret' = [task_id |-> task_id, limit |-> limit, rows |-> rows]
    /\ UNCHANGED << safety_events, audit_logs, calls, db_lock, sqlite_sequence,
                    flow_vars, gate_vars, limiter_vars >>

InitStore ==
    /\ InitFlowVars
    /\ InitGateVars
    /\ InitLimiterState
    /\ budget = [NoBudget EXCEPT !.ticks = StoreTicks]
    /\ InitStoreVars

NextStore ==
    \/ Tick
    \/ \E t \in StoreTaskIds : LogActionCall(t, "info")
    \/ LogSafetyEventCall("rate_limited")
    \/ \E c \in 1..MaxCalls : ExecuteInsert(c)
    \/ \E c \in 1..MaxCalls : ExecuteRaises(c)
    \/ \E c \in 1..MaxCalls : Commit(c)
    \/ \E c \in 1..MaxCalls : CommitRaises(c)

SpecStore == InitStore /\ [][NextStore]_vars

\* SpecQuery: the store with readers.
NextQuery ==
    \/ NextStore
    \/ \E t \in StoreTaskIds, n \in StoreLimits : GetTaskLogs(t, n)

SpecQuery == InitStore /\ [][NextQuery]_vars

(***************************************************************************)
(* C21, C22, C23: the audit store.                                         *)
(***************************************************************************)
\* The log_action calls that have returned.
ReturnedLogActions ==
    {c \in DOMAIN calls : calls[c].fn = "log_action" /\ calls[c].pc = "returned"}

\* C21: however the steps of concurrent log_action calls interleave, the rows of
\* audit_logs stand in commit order with strictly increasing ids, the ids the
\* calls returned are pairwise distinct, each returned id is the id of the row
\* the call wrote, and a committed row is never lost or changed.
C21_AuditIdsMonotone ==
    /\ [](\A i, j \in DOMAIN audit_logs : i < j => audit_logs[i].id < audit_logs[j].id)
    /\ [](\A c, d \in ReturnedLogActions : c # d => calls[c].ret # calls[d].ret)
    /\ [](\A c \in ReturnedLogActions :
            \E i \in DOMAIN audit_logs :
                audit_logs[i].id = calls[c].ret /\ audit_logs[i] = calls[c].row)
    /\ [](Len(audit_logs) = Cardinality(ReturnedLogActions))
    /\ [][/\ Len(audit_logs') >= Len(audit_logs)
          /\ SubSeq(audit_logs', 1, Len(audit_logs)) = audit_logs]_vars

\* C21 witness: three log_action calls were in progress together and committed
\* in another order than they were made: the second call holds id 1, the first
\* id 2.
C21_Witness ==
    /\ Len(calls) = 3
    /\ ReturnedLogActions = {1, 2, 3}
    /\ calls[2].ret = 1
    /\ calls[1].ret = 2
    /\ calls[3].ret = 3
    /\ Len(audit_logs) = 3

\* C22 (as claimed): get_task_logs returns rows of the task asked for only, at
\* most `limit` of them, and of any two rows returned the one appended later (of
\* the larger id) comes first, also when both carry the same timestamp.
C22_MostRecentFirst ==
    LET rows == query_ret.rows
    IN  /\ Len(rows) <= query_ret.limit
        /\ \A i \in DOMAIN rows : rows[i].task_id = query_ret.task_id
        /\ \A i, j \in DOMAIN rows : i < j => rows[i].id > rows[j].id

\* A call ends with its exception in this step.
WriteFailsStep(c) ==
    /\ c \in DOMAIN calls
    /\ calls[c].pc # "raised"
    /\ calls'[c].pc = "raised"

\* C23: a call whose write fails ends with the exception at its caller and
\* returns nothing; the step leaves both tables and the id counter as they were
\* and the lock is not left with the call.  So a call either returned and its
\* row is in its table, or it raised and no row of it is: the tables hold one row
\* for each call that returned and none else.
C23_WriteFailurePropagates ==
    /\ [][\A c \in 1..MaxCalls :
            WriteFailsStep(c) =>
                /\ audit_logs' = audit_logs
                /\ safety_events' = safety_events
                /\ sqlite_sequence' = sqlite_sequence
                /\ db_lock' # c
                /\ calls'[c].ret = 0]_vars
    /\ [](Len(audit_logs) = Cardinality(ReturnedLogActions))
    /\ [](Len(safety_events) =
            Cardinality({c \in DOMAIN calls :
                            calls[c].fn = "log_safety_event" /\ calls[c].pc = "returned"}))
    /\ [](\A c \in DOMAIN calls : calls[c].pc = "raised" => db_lock # c)

\* C23 witness: the commit of a log_action call raised after its INSERT had been
\* given id 1; the table was left empty, and the next call wrote its row under
\* id 1; the commit of a log_safety_event call raised as well.
C23_Witness ==
    \E c, d, e \in DOMAIN calls :
        /\ calls[c].fn = "log_action" /\ calls[c].pc = "raised" /\ calls[c].id = 1
        /\ calls[d].fn = "log_action" /\ calls[d].pc = "returned" /\ calls[d].ret = 1
        /\ calls[e].fn = "log_safety_event" /\ calls[e].pc = "raised"
        /\ Len(audit_logs) = 1
        /\ safety_events = << >>

(***************************************************************************)
(* SpecPurge: the audit store with its retention call.  clear_old_logs     *)
(* begins with `cutoff_date = datetime.now() - timedelta(days=days)`;      *)
(* audit_store.py imports datetime alone (line 7), so the name timedelta   *)
(* is undefined and the statement raises NameError before the connection   *)
(* is opened: no DELETE is executed.  log_rate_limit begins with the same  *)
(* expression, so the table rate_limits never receives a row.              *)
(***************************************************************************)
\* The retention periods asked for, in days.
PurgeDays == {0, 1}

\* cutoff_date = datetime.now() - timedelta(days=days), in seconds of the clock.
cutoff_date(current_time, days) == current_time - days * DaySeconds

\* clear_old_logs(days): NameError on the first statement; the exception reaches
\* the caller and the tables are as before.
ClearOldLogs(days) ==
    /\ Len(calls) < MaxCalls
    /\ calls' = Append(calls,
                       [fn |-> "clear_old_logs", pc |-> "raised", id |-> 0, ret |-> 0,
                        row |-> [days |-> days, error |-> "NameError"]])
    /\ UNCHANGED << safety_events, audit_logs, db_lock, sqlite_sequence, query_ret,
                    flow_vars, gate_vars, limiter_vars >>

NextPurge ==
    \/ NextStore
    \/ \E days \in PurgeDays : ClearOldLogs(days)

SpecPurge == InitStore /\ [][NextPurge]_vars

\* A step that is a call of clear_old_logs.
ClearStep ==
    /\ Len(calls') = Len(calls) + 1
    /\ calls'[Len(calls')].fn = "clear_old_logs"

\* rows is a leading part of rows2: rows2 has every row of rows, unchanged and in
\* place.
IsPrefix(rows, rows2) ==
    /\ Len(rows) <= Len(rows2)
    /\ \A i \in DOMAIN rows : rows2[i] = rows[i]

\* The rows of audit_logs not older than the cutoff.
NotOlderThan(rows, cutoff) == SelectSeq(rows, LAMBDA r : r.timestamp >= cutoff)

\* C31 (as claimed): a call of clear_old_logs(days) leaves in audit_logs exactly
\* the rows whose timestamp is not older than now minus days, each unchanged
\* (and so for the other tables), and every other step of the store keeps each
\* existing row of audit_logs and safety_events, unchanged and in place.
C31_PurgeDeletesExactlyOld ==
    /\ [][ClearStep =>
            audit_logs' = NotOlderThan(audit_logs,
                              cutoff_date(now, calls'[Len(calls')].row.days))]_vars
    /\ [][~ClearStep => /\ IsPrefix(audit_logs, audit_logs')
                        /\ IsPrefix(safety_events, safety_events')]_vars

\* The part of C31 that the store keeps: no step, clear_old_logs included,
\* deletes or updates a committed row.
C31_NoRowDeletedOrUpdated ==
    [][IsPrefix(audit_logs, audit_logs') /\ IsPrefix(safety_events, safety_events')]_vars

(***************************************************************************)
(* SpecCounter: the failure counters of rate_limiter (core/agents.py) and  *)
(* of safety_system (core/safety_system.py) under rate_limit_check,        *)
(* increment_test_failure and reset_test_failures, each called on both     *)
(* instances.  rate_limit_check reaches check_elon_test_failure for coder  *)
(* in core/agents.py and for elon in core/safety_system.py, and            *)
(* check_henry_rate_limit for networker in core/agents.py and for henry in *)
(* core/safety_system.py.  A behaviour either counts failures or fills the *)
(* hourly cap, within one second of the clock.                             *)
(***************************************************************************)
CounterChecks == 3      \* rate limit checks per behaviour of SpecCounter
CounterFailures == 4    \* increment_test_failure calls per behaviour of SpecCounter

\* reset_test_failures(k) called on both instances.
BothResetTestFailures(k) ==
    /\ elon_test_failures' =
            Assign(elon_test_failures, k, reset_test_failures(failures_of(k)))
    /\ recorded' = [recorded EXCEPT ![k] = 0]
    /\ safety_system' =
            [safety_system EXCEPT
                !.elon_test_failures =
                    Assign(@, k, reset_test_failures(Lookup(@, k, 0)))]
    /\ last_op' = [op |-> "reset_test_failures", key |-> k, allowed |-> TRUE]
    /\ UNCHANGED << now, henry_messages, allowed_log, budget, quota_vars, store_vars,
                    flow_vars, gate_vars >>

InitCounter ==
    /\ now = 0
    /\ henry_messages = [k \in CompatAgents |-> << >>]
    /\ elon_test_failures = [k \in CompatAgents |-> 0]
    /\ henry_daily_mentions = << >>
    /\ tokens = << >>
    /\ allowed_log = [k \in CompatAgents |-> << >>]
    /\ admitted = << >>
    /\ mentions_by_user = << >>
    /\ recorded = [k \in CompatAgents |-> 0]
    /\ last_op = NoOp
    /\ safety_system = NewSafetySystem
    /\ InitGateVars
    /\ budget \in { [NoBudget EXCEPT !.hourly = CounterChecks,
                                      !.failures = CounterFailures],
                     [NoBudget EXCEPT !.hourly = CompatChecks] }
    /\ InitFlowVars
    /\ InitStoreVars

NextCounter ==
    \/ \E a \in CompatAgents : BothRateLimitCheck(a)
    \/ \E k \in CompatFailureKeys : BothIncrementTestFailure(k)
    \/ \E k \in CompatFailureKeys : BothResetTestFailures(k)

SpecCounter == InitCounter /\ [][NextCounter]_vars

(***************************************************************************)
(* C32: the circuit-breaker check reads the counter and leaves it alone.   *)
(***************************************************************************)
\* The failure counter of key k in safety_system of core/safety_system.py.
WrapperFailures(k) == Lookup(safety_system.elon_test_failures, k, 0)

\* A step that is a rate_limit_check call for an agent type with a breaker.
BreakerCheckStep ==
    /\ budget'.hourly = budget.hourly - 1
    /\ last_op'.key \in CompatFailureKeys

\* The counter of key k has the value `to` after a step that changed it.
CounterChange(k, from, to) ==
    from # to =>
        \/ /\ last_op'.op = "increment_test_failure"
           /\ last_op'.key = k
           /\ to = from + 1
        \/ /\ last_op'.op = "reset_test_failures"
           /\ last_op'.key = k
           /\ to = 0

C32_WitnessCoder ==
    /\ last_op = [op |-> "rate_limit_check", key |-> "coder", allowed |-> FALSE]
    /\ failures_of("coder") = max_test_failures
    /\ budget.hourly = 0

(***************************************************************************)
(* C33: what a denied hourly check leaves behind.                          *)
(***************************************************************************)
\* The last n elements of a sequence.
LastOf(s, n) == SubSeq(s, Len(s) - n + 1, Len(s))

\* C33: under sequential limiter calls the list of recorded timestamps of a key
\* never has more than 10 elements and holds timestamps of allowed checks only
\* (it is the latest part of the key's allowed checks, in their order), and a
\* denied check records nothing: the unexpired timestamps of the key are after
\* the call what they were before it.
C33_DeniedCheckRecordsNothing ==
    /\ [](\A k \in LimiterKeys :
            /\ Len(henry_messages[k]) <= MaxHourlyMessages
            /\ Len(henry_messages[k]) <= Len(allowed_log[k])
            /\ henry_messages[k] = LastOf(allowed_log[k], Len(henry_messages[k])))
    /\ [][\A k \in LimiterKeys :
            (HourlyCheckStep(k) /\ ~last_op'.allowed) =>
                /\ unexpired(henry_messages'[k], now) = unexpired(henry_messages[k], now)
                /\ henry_messages'[k] = unexpired(henry_messages[k], now)
                /\ allowed_log' = allowed_log]_vars

\* C33 witness: the eleventh check of henry within the hour has been denied (the
\* denial is logged) and the list holds the timestamps of the ten allowed checks.
C33_Witness ==
    /\ last_op = [op |-> "check_henry_rate_limit", key |-> "henry", allowed |-> FALSE]
    /\ Len(henry_messages["henry"]) = MaxHourlyMessages
    /\ henry_messages["henry"] = allowed_log["henry"]
    /\ budget.hourly = MaxHourlyChecks - MaxHourlyMessages - 1
    /\ \E i \in DOMAIN safety_events : safety_events[i].event_type = "rate_limited"

(***************************************************************************)
(* C34: the limiter's counters are kept per agent type.                    *)
(***************************************************************************)
\* The timestamps safety_system holds for agent type k.
WrapperMessages(k) == Lookup(safety_system.henry_messages, k, << >>)

\* What the limiters hold for agent type j and what a check for j would return
\* now: rate_limiter of core/agents.py, then safety_system.
LimiterView(j) ==
    [messages |-> messages_of(j),
     failures |-> failures_of(j),
     check |-> rate_limit_check(j),
     wrapper_messages |-> WrapperMessages(j),
     wrapper_failures |-> WrapperFailures(j),
     wrapper_check |-> safety_system_rate_limit_check(safety_system, j, now).ret]

\* A step that is a limiter call (an hourly or breaker check, an increment or a
\* reset) for agent type k.
LimiterCallFor(k) ==
    /\ now' = now
    /\ last_op'.key = k
    /\ last_op'.op \in {"rate_limit_check", "increment_test_failure",
                        "reset_test_failures"}

\* C34: an hourly-cap check, a recorded failure or a reset for one agent type
\* leaves the timestamps and the failure counter of every other agent type as
\* they were, and with them the answer a check for the other type would get.
C34_CountersPerAgentType ==
    [][\A k \in CompatAgents :
        LimiterCallFor(k) =>
            \A j \in CompatAgents \ {k} : LimiterView(j)' = LimiterView(j)]_vars

\* C34 witness: networker has used up its hour on rate_limiter (ten timestamps,
\* its check denied), and the next call, a check for henry, is answered true by
\* safety_system and leaves one timestamp under henry.
C34_Witness ==
    /\ Len(messages_of("networker")) = MaxHourlyMessages
    /\ ~rate_limit_check("networker")
    /\ last_op.op = "rate_limit_check"
    /\ last_op.key = "henry"
    /\ safety_system.ret
    /\ Len(WrapperMessages("henry")) = 1
    /\ budget.hourly = 0

\* C34 witness for the breaker: coder and elon have three failures each on both
\* instances, elon was reset, and the check for coder is still denied.
C34_WitnessBreaker ==
    /\ failures_of("coder") = max_test_failures
    /\ WrapperFailures("coder") = max_test_failures
    /\ failures_of("elon") = 0
    /\ WrapperFailures("elon") = 0
    /\ recorded["coder"] = max_test_failures
    /\ last_op = [op |-> "rate_limit_check", key |-> "coder", allowed |-> FALSE]

(***************************************************************************)
(* SpecRunFair: SpecRun under a scheduler that runs every execution unit   *)
(* that can take a step.  asyncio runs each ready task in turn, and every  *)
(* call of the generation service is taken to return or raise, so a unit   *)
(* that can start, finish a stage, record its result or notify does so.    *)
(* The requests (start_workflow, delete_task, get_task_status) come when   *)
(* the callers send them: nothing obliges them.                            *)
(***************************************************************************)
\* One step of the execution unit of task id.
UnitStep(id) ==
    \/ UnitStart(id)
    \/ StageReturns(id)
    \/ StageRaises(id)
    \/ UnitRecordCompleted(id)
    \/ UnitLogSuccess(id)
    \/ UnitNotify(id)

SpecRunFair ==
    /\ InitRun
    /\ [][NextRun]_vars
    /\ \A id \in TaskIds : WF_vars(UnitStep(id))

\* The execution unit of task id has ended with an exception that nothing
\* handles: tasks_db[task_id] at the head of execute_agent_workflow, before the
\* try block, raised KeyError.
UnhandledException(id) == id \in DOMAIN unit /\ unit[id].pc = "crashed"

\* Every task that is in the registry comes to hold a terminal status, unless it
\* is deleted first.
C35_PresentTasksTerminate ==
    \A id \in TaskIds :
        (id \in tasks_db) ~>
            (id \notin tasks_db \/ task[id].status \in TerminalStatuses)

\* Every execution unit comes to its end.
C35_UnitsTerminate ==
    \A id \in TaskIds :
        (id \in DOMAIN unit) ~>
            (id \in DOMAIN unit /\ unit[id].pc \in {"done", "crashed"})

\* C35 (as claimed): however delete_task interleaves with the execution unit of
\* a task, a delete before the unit's first step included, no unit ends with an
\* unhandled exception, every unit comes to its end, and every task still in the
\* registry comes to hold a terminal status.
C35_DeleteNeverCrashesUnit ==
    /\ [](\A id \in TaskIds : ~UnhandledException(id))
    /\ C35_UnitsTerminate
    /\ C35_PresentTasksTerminate

====
